---------------------------- MODULE Spec2Model ----------------------------
(***************************************************************************)
(* Model of the deterministic decision core of opportunity-vet-cli:        *)
(*   pipeline/dedupe.ts   (evidence consolidation and credibility),        *)
(*   pipeline/scoring.ts  (evidence strength, total, kill rules),          *)
(*   pipeline/run.ts      (the orchestration of one run).                  *)
(* Strings are TLA+ strings handled character by character (Len, SubSeq,   *)
(* \o), so that lower-casing, trimming and URL splitting are computed.     *)
(***************************************************************************)
EXTENDS Integers, Sequences, FiniteSets, TLC

VARIABLES
    pc,                 \* position of the operation under way
    rubric,             \* applyKillRules: the rubric argument
    wedgeOptions,       \* applyKillRules: the wedgeOptions argument
    evidenceCount,      \* applyKillRules: the evidenceCount argument
    originalDecision,   \* applyKillRules: the originalDecision argument
    killResult,         \* applyKillRules: the KillRuleResult returned
    evidence,           \* dedupeEvidence / computeEvidenceStrength: the argument
    dedupeResult,       \* dedupeEvidence: the DedupeResult returned
    dedupeAgain,        \* dedupeEvidence applied to dedupeResult.evidence
    strength,           \* computeEvidenceStrength: the number returned
    total,              \* computeTotal: the number returned
    options,            \* runPipeline: the PipelineOptions argument
    depth,              \* runPipeline: depth, clamped
    iteration,          \* runPipeline: the loop variable
    allEvidence,        \* runPipeline: allEvidence
    latestAnalysis,     \* runPipeline: latestAnalysis (None for null)
    latestSkeptic,      \* runPipeline: latestSkeptic (None for null)
    evidenceStrength,   \* runPipeline: evidenceStrength, computed before the Referee
    refereeDraft,       \* runPipeline: refereeDraft, the parsed Referee response
    packet,             \* runPipeline: the validated DecisionPacket
    stepLog,            \* runPipeline: the steps begun so far, in order
    clampArg,           \* clampScore: the argument
    clampResult,        \* clampScore: the number returned
    credUrl,            \* getCredibility: the argument
    credResult,         \* getCredibility: the number returned
    retryOptions,       \* withRetry: the options argument
    retryAttempt,       \* withRetry: the loop variable attempt
    retryLastError,     \* withRetry: lastError
    retryLog,           \* withRetry: the outcome of every call of fn so far
    retryOutcome,       \* withRetry: what it returned or threw
    validateArgs,       \* callAndValidate: userPrompt and maxValidationRetries
    validateAttempt,    \* callAndValidate: the loop variable attempt
    validateLastError,  \* callAndValidate: lastError
    validateLog,        \* callAndValidate: prompt and response of every
                        \* call of callOpenAI so far
    validateOutcome,    \* callAndValidate: what it returned or threw
    ideaPackets,        \* runBrainstorm: packets, one for each idea
    salvageResponse,    \* runBrainstorm: the SalvageResult runSalvage returned
    salvageResult,      \* runBrainstorm: salvageResult when the report is made
    totalTokens,        \* client.ts: _totalTokens, the process-wide counter
    tokenRuns           \* runPipeline: the invocations in flight, by number

killVars == <<rubric, wedgeOptions, evidenceCount, originalDecision, killResult>>
dedupeVars == <<evidence, dedupeResult, dedupeAgain>>
scoreVars == <<strength, total>>
pipeVars == <<options, depth, iteration, allEvidence, latestAnalysis,
              latestSkeptic, evidenceStrength, refereeDraft, packet,
              stepLog>>
clampVars == <<clampArg, clampResult>>
credVars == <<credUrl, credResult>>
retryVars == <<retryOptions, retryAttempt, retryLastError, retryLog,
               retryOutcome>>
validateVars == <<validateArgs, validateAttempt, validateLastError,
                  validateLog, validateOutcome>>
brainstormVars == <<ideaPackets, salvageResponse, salvageResult>>
tokenVars == <<totalTokens, tokenRuns>>
extraVars == <<brainstormVars, tokenVars>>
helperVars == <<clampVars, credVars, retryVars, validateVars, extraVars>>
vars == <<pc, killVars, dedupeVars, scoreVars, pipeVars, helperVars>>

(***************************************************************************)
(* Bounds of the model.                                                    *)
(***************************************************************************)
MaxWedge == 1
MaxEvidenceCount == 11
MaxEvidence == 3
MaxBlock == 4
MaxSpam == 36

(***************************************************************************)
(* Value domains.                                                          *)
(***************************************************************************)
MinScore == 0
MaxScore == 5
Scores == MinScore..MaxScore
Decisions == {"GO", "NO_GO", "UNCLEAR"}
None == [none |-> TRUE]

Min(a, b) == IF a < b THEN a ELSE b
Max(a, b) == IF a > b THEN a ELSE b

\* Every sequence over S of length at most n.
SeqsUpTo(S, n) == UNION {[1..k -> S] : k \in 0..n}

(***************************************************************************)
(* String primitives of the JavaScript runtime, character by character.    *)
(***************************************************************************)
\* s.charAt(i - 1): the empty string outside the string
Char(s, i) == IF i \in 1..Len(s) THEN SubSeq(s, i, i) ELSE ""
DropFirst(s, n) == SubSeq(s, n + 1, Len(s))

Digits == {"0", "1", "2", "3", "4", "5", "6", "7", "8", "9"}
Whitespace == {" ", "\t", "\n"}

LowerOf ==
    [A |-> "a", B |-> "b", C |-> "c", D |-> "d", E |-> "e", F |-> "f",
     G |-> "g", H |-> "h", I |-> "i", J |-> "j", K |-> "k", L |-> "l",
     M |-> "m", N |-> "n", O |-> "o", P |-> "p", Q |-> "q", R |-> "r",
     S |-> "s", T |-> "t", U |-> "u", V |-> "v", W |-> "w", X |-> "x",
     Y |-> "y", Z |-> "z"]
LowerChar(c) == IF c \in DOMAIN LowerOf THEN LowerOf[c] ELSE c

\* String.prototype.toLowerCase
RECURSIVE toLowerCase(_)
toLowerCase(s) ==
    IF s = "" THEN "" ELSE LowerChar(Head(s)) \o toLowerCase(Tail(s))

\* s.startsWith(p)
StartsWith(s, p) == Len(s) >= Len(p) /\ SubSeq(s, 1, Len(p)) = p

\* the lower-case literal p occurs in s at index i (s already lower-cased:
\* this is how the i flag of a regular expression reads the text)
MatchAt(s, i, p) ==
    /\ i >= 1
    /\ i + Len(p) - 1 <= Len(s)
    /\ SubSeq(s, i, i + Len(p) - 1) = p

\* index of the first character of s, from i on, that is in set cs;
\* Len(s) + 1 if none
RECURSIVE FirstOfFrom(_, _, _)
FirstOfFrom(s, cs, i) ==
    IF i > Len(s) THEN Len(s) + 1
    ELSE IF Char(s, i) \in cs THEN i
    ELSE FirstOfFrom(s, cs, i + 1)
FirstOf(s, cs) == FirstOfFrom(s, cs, 1)

\* s.replace(/\/+$/, "")
RECURSIVE stripTrailingSlashes(_)
stripTrailingSlashes(s) ==
    IF s # "" /\ Char(s, Len(s)) = "/"
    THEN stripTrailingSlashes(SubSeq(s, 1, Len(s) - 1))
    ELSE s

\* s.replace(/^www\./, "")
stripWww(s) == IF StartsWith(s, "www.") THEN DropFirst(s, 4) ELSE s

\* s.replace(/\s+/g, " ")
RECURSIVE collapseWhitespace(_)
collapseWhitespace(s) ==
    IF s = "" THEN ""
    ELSE IF Head(s) \in Whitespace
    THEN IF Len(s) > 1 /\ Char(s, 2) \in Whitespace
         THEN collapseWhitespace(Tail(s))
         ELSE " " \o collapseWhitespace(Tail(s))
    ELSE Head(s) \o collapseWhitespace(Tail(s))

\* String.prototype.trim
RECURSIVE trim(_)
trim(s) ==
    IF s = "" THEN ""
    ELSE IF Head(s) \in Whitespace THEN trim(Tail(s))
    ELSE IF Char(s, Len(s)) \in Whitespace THEN trim(SubSeq(s, 1, Len(s) - 1))
    ELSE s

(***************************************************************************)
(* new URL(url), for absolute http(s) URLs without port or credentials:    *)
(* scheme "://" host [path] ["?" query] ["#" fragment].  Anything else     *)
(* (no scheme, empty host, a space in the host) makes the constructor      *)
(* throw (ok = FALSE).  The parser lower-cases the scheme and the host and *)
(* gives an empty path the pathname "/".                                   *)
(***************************************************************************)
ParseUrl(url) ==
    LET lower == toLowerCase(SubSeq(url, 1, Min(Len(url), Len("https://"))))
        protocol == IF StartsWith(lower, "https://") THEN "https:"
                    ELSE IF StartsWith(lower, "http://") THEN "http:"
                    ELSE ""
        rest == DropFirst(url, Len(protocol) + 2)
        hostEnd == FirstOf(rest, {"/", "?", "#"})
        host == SubSeq(rest, 1, hostEnd - 1)
        tail == DropFirst(rest, hostEnd - 1)
        path == SubSeq(tail, 1, FirstOf(tail, {"?", "#"}) - 1)
    IN  [ok |-> /\ protocol # ""
                /\ host # ""
                /\ FirstOf(host, Whitespace) > Len(host),
         protocol |-> protocol,
         hostname |-> toLowerCase(host),
         pathname |-> IF path = "" THEN "/" ELSE path]

(***************************************************************************)
(* dedupe.ts                                                               *)
(***************************************************************************)
Tier5Domains == {"g2.com", "capterra.com", "trustpilot.com", "gartner.com",
                 "forrester.com", "trustradius.com", "getapp.com"}
Tier4Domains == {"reddit.com", "news.ycombinator.com", "stackoverflow.com",
                 "producthunt.com", "indiehackers.com", "quora.com",
                 "slashdot.org"}
Tier3Domains == {"techcrunch.com", "theverge.com", "arstechnica.com",
                 "wired.com", "zdnet.com", "venturebeat.com", "bloomberg.com",
                 "forbes.com", "hbr.org"}

\* number of "." in s
RECURSIVE CountDots(_)
CountDots(s) ==
    IF s = "" THEN 0
    ELSE (IF Head(s) = "." THEN 1 ELSE 0) + CountDots(Tail(s))

\* The table is an object literal, so a property read also finds what the
\* object inherits from Object.prototype.  Of those names, these are the
\* ones a hostname (lower case) can be; their values (the function Object,
\* the object Object.prototype) are truthy and are not numbers.
InheritedKeys == {"constructor", "__proto__"}
\* stands for a value that is not a number; every comparison of it with a
\* number is false
NotANumber == -1

\* CREDIBILITY_TIERS[hostname]; 0 stands for the falsy undefined
CREDIBILITY_TIERS(hostname) ==
    IF hostname \in Tier5Domains THEN 5
    ELSE IF hostname \in Tier4Domains THEN 4
    ELSE IF hostname \in Tier3Domains THEN 3
    ELSE IF hostname \in InheritedKeys THEN NotANumber
    ELSE 0

ListicleTier == 1
DefaultTier == 2

Separators == {"-", "_"}

\* /\/best[-_].*[-_]tools/i  and  /best[-_].*[-_]software/i  on the
\* lower-cased text: head, a separator, any characters but a line break, a
\* separator, tail
MatchHeadSepTail(lower, head, tail) ==
    \E i \in 1..Len(lower) :
        /\ MatchAt(lower, i, head)
        /\ Char(lower, i + Len(head)) \in Separators
        /\ \E j \in (i + Len(head) + 1)..Len(lower) :
              /\ Char(lower, j) \in Separators
              /\ MatchAt(lower, j + 1, tail)
              /\ \A k \in (i + Len(head) + 1)..(j - 1) : Char(lower, k) # "\n"

\* /\/top[-_]?\d+/i
MatchTopN(lower) ==
    \E i \in 1..Len(lower) :
        /\ MatchAt(lower, i, "/top")
        /\ \/ Char(lower, i + 4) \in Digits
           \/ (Char(lower, i + 4) \in Separators /\ Char(lower, i + 5) \in Digits)

\* /\/\d+[-_]best/i
MatchNBest(lower) ==
    \E i \in 1..Len(lower) :
        /\ Char(lower, i) = "/"
        /\ \E k \in (i + 1)..Len(lower) :
              /\ \A d \in (i + 1)..k : Char(lower, d) \in Digits
              /\ Char(lower, k + 1) \in Separators
              /\ MatchAt(lower, k + 2, "best")

\* some pattern of LISTICLE_PATTERNS tests true on url
LISTICLE_PATTERNS(url) ==
    LET lower == toLowerCase(url)
    IN  \/ MatchHeadSepTail(lower, "/best", "tools")
        \/ MatchTopN(lower)
        \/ MatchNBest(lower)
        \/ MatchHeadSepTail(lower, "best", "software")

\* hostname.split(".").slice(-2).join("."), for a hostname of 3 or more parts
RECURSIVE LastTwoLabels(_)
LastTwoLabels(hostname) ==
    IF CountDots(hostname) <= 1 THEN hostname
    ELSE LastTwoLabels(DropFirst(hostname, FirstOf(hostname, {"."})))

getCredibility(url) ==
    LET u == ParseUrl(url)
        hostname == stripWww(u.hostname)
        exact == CREDIBILITY_TIERS(hostname)
        parent == CREDIBILITY_TIERS(LastTwoLabels(hostname))
    IN  IF ~u.ok THEN DefaultTier
        ELSE IF exact # 0 THEN exact
        ELSE IF CountDots(hostname) + 1 > 2 /\ parent # 0 THEN parent
        ELSE IF LISTICLE_PATTERNS(url) THEN ListicleTier
        ELSE DefaultTier

\* Mutant: the normalized URL keeps its letter case.
normalizeUrlKeepCase(url) ==
    LET u == ParseUrl(url)
    IN  IF u.ok
        THEN stripTrailingSlashes(
                u.protocol \o "//" \o u.hostname \o u.pathname)
        ELSE stripTrailingSlashes(url)

normalizeUrl(url) ==
    LET u == ParseUrl(url)
    IN  IF u.ok
        THEN toLowerCase(stripTrailingSlashes(
                u.protocol \o "//" \o u.hostname \o u.pathname))
        ELSE stripTrailingSlashes(toLowerCase(url))

normalizeQuote(quote) == trim(collapseWhitespace(toLowerCase(quote)))

getDomain(url) ==
    LET u == ParseUrl(url)
    IN  IF u.ok THEN stripWww(u.hostname) ELSE url

\* seen is the Map of the code, in insertion order: a sequence of
\* [key, item]; Map.set on a key already present keeps the key's position.
SeenIndex(seen, key) == CHOOSE i \in 1..Len(seen) : seen[i].key = key
SeenHas(seen, key) == \E i \in 1..Len(seen) : seen[i].key = key

\* Mutant: only a strictly higher credibility replaces.
ReplacesByCredibility(item, existing) ==
    /\ item.credibility # NotANumber
    /\ existing.credibility # NotANumber
    /\ item.credibility > existing.credibility

\* the replacement test of the URL collision branch
Replaces(item, existing) ==
    \/ /\ item.credibility # NotANumber
       /\ existing.credibility # NotANumber
       /\ item.credibility > existing.credibility
    \/ Len(item.quote) > Len(existing.quote)

\* Mutant: a URL collision is not counted as a removal.
DedupeStepUncounted(st, item) ==
    IF normalizeQuote(item.quote) \in st.seenQuotes
    THEN [st EXCEPT !.removedCount = @ + 1]
    ELSE IF SeenHas(st.seen, normalizeUrl(item.url))
    THEN st
    ELSE [st EXCEPT
            !.seen = Append(@, [key |-> normalizeUrl(item.url),
                                item |-> item]),
            !.seenQuotes = @ \cup {normalizeQuote(item.quote)}]

\* one pass of the for loop of dedupeEvidence
DedupeStep(st, item) ==
    LET normUrl == normalizeUrl(item.url)
        normQuote == normalizeQuote(item.quote)
    IN  IF normQuote \in st.seenQuotes
        THEN [st EXCEPT !.removedCount = @ + 1]
        ELSE IF SeenHas(st.seen, normUrl)
        THEN LET i == SeenIndex(st.seen, normUrl)
             IN  [st EXCEPT
                    !.seen[i].item =
                        IF Replaces(item, @) THEN item ELSE @,
                    !.removedCount = @ + 1]
        ELSE [st EXCEPT
                !.seen = Append(@, [key |-> normUrl, item |-> item]),
                !.seenQuotes = @ \cup {normQuote}]

\* the state of the for loop after its first n passes
RECURSIVE DedupeLoop(_, _)
DedupeLoop(items, n) ==
    IF n = 0 THEN [seen |-> <<>>, seenQuotes |-> {}, removedCount |-> 0]
    ELSE LET st == DedupeLoop(items, n - 1)
         IN  DedupeStep(st, items[n])

\* Array.from(seen.values())
SeenItems(st) == [i \in 1..Len(st.seen) |-> st.seen[i].item]

\* Mutant: the items keep the credibility they arrived with.
WithCredibilityKept(ev) == ev

\* the credibility of every item replaced by the one computed from its URL
WithCredibility(ev) ==
    [i \in 1..Len(ev) |->
        [ev[i] EXCEPT !.credibility = getCredibility(ev[i].url)]]

\* Mutant: the domains are the hostnames with their "www." label.
DomainsOfHostnames(ev) ==
    {IF ParseUrl(ev[i].url).ok THEN ParseUrl(ev[i].url).hostname
     ELSE ev[i].url : i \in 1..Len(ev)}

\* new Set(withCredibility.map((e) => getDomain(e.url)))
DomainsOf(ev) == {getDomain(ev[i].url) : i \in 1..Len(ev)}

dedupeEvidence(items) ==
    LET st == DedupeLoop(items, Len(items))
        withCredibility == WithCredibility(SeenItems(st))
    IN  [evidence |-> withCredibility,
         uniqueDomains |-> Cardinality(DomainsOf(withCredibility)),
         removedCount |-> st.removedCount]

(***************************************************************************)
(* scoring.ts: computeEvidenceStrength, computeTotal                       *)
(***************************************************************************)
HIGH_CREDIBILITY_DOMAINS ==
    {"g2.com", "capterra.com", "trustpilot.com", "gartner.com",
     "forrester.com", "trustradius.com", "getapp.com",
     "reddit.com", "news.ycombinator.com", "stackoverflow.com",
     "producthunt.com", "indiehackers.com"}

\* domains.size
UniqueDomains(ev) == Cardinality({getDomain(ev[i].url) : i \in 1..Len(ev)})

\* reviewSources.length
ReviewSources(ev) ==
    Cardinality({i \in 1..Len(ev) :
                    getDomain(ev[i].url) \in HIGH_CREDIBILITY_DOMAINS})

\* lowCredCount
LowCredCount(ev) ==
    Cardinality({i \in 1..Len(ev) : /\ ev[i].credibility # NotANumber
                                    /\ ev[i].credibility <= 1})

PerBaseStep == 6
BaseCap == 5
MinDomains == 5
MinReviewSources == 2
SoftThreshold == 10

\* lowCredRatio > 0.4, with lowCredRatio = lowCredCount / count for count > 0
\* and 0 otherwise.  The quotient of two small integers is the double nearest
\* to the exact ratio, and 0.4 is the double nearest to 2/5, so the test is
\* the exact one, 5 * lowCredCount > 2 * count.
LowCredRatioHigh(lowCredCount, count) ==
    count > 0 /\ 5 * lowCredCount > 2 * count

\* Mutant: a count below the soft threshold costs nothing.
computeEvidenceStrengthNoSoftPenalty(ev) ==
    LET count == Len(ev)
        score == Min(BaseCap, count \div PerBaseStep)
                 + (IF UniqueDomains(ev) >= MinDomains THEN 1 ELSE 0)
                 + (IF ReviewSources(ev) >= MinReviewSources THEN 1 ELSE 0)
                 - (IF LowCredRatioHigh(LowCredCount(ev), count) THEN 1 ELSE 0)
    IN  Max(MinScore, Min(MaxScore, score))

\* Mutant: the result is not clamped from below.
computeEvidenceStrengthNoFloor(ev) ==
    LET count == Len(ev)
        score == Min(BaseCap, count \div PerBaseStep)
                 + (IF UniqueDomains(ev) >= MinDomains THEN 1 ELSE 0)
                 + (IF ReviewSources(ev) >= MinReviewSources THEN 1 ELSE 0)
                 - (IF LowCredRatioHigh(LowCredCount(ev), count) THEN 1 ELSE 0)
                 - (IF count < SoftThreshold THEN 1 ELSE 0)
    IN  Min(MaxScore, score)

computeEvidenceStrength(ev) ==
    LET count == Len(ev)
        uniqueDomains == UniqueDomains(ev)
        reviewSources == ReviewSources(ev)
        lowCredCount == LowCredCount(ev)
        base == Min(BaseCap, count \div PerBaseStep)
        score == base
                 + (IF uniqueDomains >= MinDomains THEN 1 ELSE 0)
                 + (IF reviewSources >= MinReviewSources THEN 1 ELSE 0)
                 - (IF LowCredRatioHigh(lowCredCount, count) THEN 1 ELSE 0)
                 - (IF count < SoftThreshold THEN 1 ELSE 0)
    IN  Max(MinScore, Min(MaxScore, score))

\* Mutant: the code-computed dimension is left out of the sum.
computeTotalSeven(scores, strengthScore) ==
    scores.painIntensity + scores.frequency + scores.buyerClarity
    + scores.budgetSignal + scores.switchingCost + scores.competition
    + scores.distributionFeasibility

computeTotal(scores, strengthScore) ==
    scores.painIntensity + scores.frequency + scores.buyerClarity
    + scores.budgetSignal + scores.switchingCost + scores.competition
    + scores.distributionFeasibility + strengthScore

(***************************************************************************)
(* scoring.ts: applyKillRules                                              *)
(***************************************************************************)
KillThreshold == 1
UnclearEvidenceMin == 10

Reason1 == "Kill rule: evidenceStrength <= 1 - insufficient evidence to proceed."
Reason2 == "Kill rule: distributionFeasibility <= 1 - no clear way to reach buyers."
Reason3 == "Kill rule: competition <= 1 with no wedge options - market is saturated with no differentiation path."
UnclearReason == "Kill rule: buyerClarity <= 1 with insufficient evidence - cannot determine buyer."

Rule1(r) == r.evidenceStrength <= KillThreshold
Rule2(r) == r.distributionFeasibility <= KillThreshold
Rule3(r, w) == r.competition <= KillThreshold /\ Len(w) = 0
Rule4(r, n) == r.buyerClarity <= KillThreshold /\ n < UnclearEvidenceMin

\* Mutant: the reasons are collected as an else-if chain (first rule only).
KillReasonsFirstOnly(r, w) ==
    IF Rule1(r) THEN <<Reason1>>
    ELSE IF Rule2(r) THEN <<Reason2>>
    ELSE IF Rule3(r, w) THEN <<Reason3>>
    ELSE <<>>

\* reasons after the three pushes of lines 78-91
KillReasons(r, w) ==
    (IF Rule1(r) THEN <<Reason1>> ELSE <<>>)
    \o (IF Rule2(r) THEN <<Reason2>> ELSE <<>>)
    \o (IF Rule3(r, w) THEN <<Reason3>> ELSE <<>>)

\* Mutant: rule 4 is evaluated before the NO_GO batch.
applyKillRulesUnclearFirst(r, w, n, d) ==
    IF Rule4(r, n)
    THEN [decision |-> "UNCLEAR",
          overridden |-> (d # "UNCLEAR" /\ d # "NO_GO"),
          overrideReasons |-> <<UnclearReason>>]
    ELSE IF Len(KillReasons(r, w)) > 0
    THEN [decision |-> "NO_GO", overridden |-> d # "NO_GO",
          overrideReasons |-> KillReasons(r, w)]
    ELSE [decision |-> d, overridden |-> FALSE, overrideReasons |-> <<>>]

\* Mutant: a forced UNCLEAR counts as an override of every other decision.
applyKillRulesOverrideNoGo(r, w, n, d) ==
    IF Len(KillReasons(r, w)) > 0
    THEN [decision |-> "NO_GO", overridden |-> d # "NO_GO",
          overrideReasons |-> KillReasons(r, w)]
    ELSE IF Rule4(r, n)
    THEN [decision |-> "UNCLEAR", overridden |-> d # "UNCLEAR",
          overrideReasons |-> <<UnclearReason>>]
    ELSE [decision |-> d, overridden |-> FALSE, overrideReasons |-> <<>>]

\* Mutant: rule 3 ignores the wedge options.
applyKillRulesNoWedge(r, w, n, d) ==
    IF Len(KillReasons(r, <<>>)) > 0
    THEN [decision |-> "NO_GO", overridden |-> d # "NO_GO",
          overrideReasons |-> KillReasons(r, <<>>)]
    ELSE IF Rule4(r, n)
    THEN [decision |-> "UNCLEAR",
          overridden |-> (d # "UNCLEAR" /\ d # "NO_GO"),
          overrideReasons |-> <<UnclearReason>>]
    ELSE [decision |-> d, overridden |-> FALSE, overrideReasons |-> <<>>]

applyKillRules(r, w, n, d) ==
    LET reasons == KillReasons(r, w)
        unclearRule == Rule4(r, n)
    IN  IF Len(reasons) > 0
        THEN [decision |-> "NO_GO",
              overridden |-> d # "NO_GO",
              overrideReasons |-> reasons]
        ELSE IF unclearRule
        THEN [decision |-> "UNCLEAR",
              overridden |-> (d # "UNCLEAR" /\ d # "NO_GO"),
              overrideReasons |-> <<UnclearReason>>]
        ELSE [decision |-> d,
              overridden |-> FALSE,
              overrideReasons |-> <<>>]

(***************************************************************************)
(* run.ts.  A value parsed from a model response (JSON) is one of          *)
(*   [tenths |-> n]   a number, in tenths (26 is 2.6),                      *)
(*   [str |-> s]      a string,                                            *)
(*   [arr |-> seq]    an array,                                            *)
(*   [obj |-> f]      an object, f a function from its keys,               *)
(*   Undefined        an absent key.                                       *)
(***************************************************************************)
Undefined == [undef |-> TRUE]
JNum(t) == [tenths |-> t]
JStr(x) == [str |-> x]
JArr(x) == [arr |-> x]
JObj(f) == [obj |-> f]
IsNumber(v) == DOMAIN v = {"tenths"}
IsString(v) == DOMAIN v = {"str"}
IsArray(v) == DOMAIN v = {"arr"}
IsObject(v) == DOMAIN v = {"obj"}

\* (v as Record<string, unknown>) ?? {}
OrEmptyObject(v) == IF IsObject(v) THEN v.obj ELSE <<>>
\* o[key] of an object
Get(o, key) == IF key \in DOMAIN o THEN o[key] ELSE Undefined

\* Math.round of a number given in tenths: floor(x + 0.5)
Round(t) == (t + 5) \div 10

\* Mutant: the score is not clamped from above.
clampScoreNoCap(value) ==
    LET n == IF IsNumber(value) THEN value.tenths ELSE 0
    IN  Max(MinScore, Round(n))

clampScore(value) ==
    LET n == IF IsNumber(value) THEN value.tenths ELSE 0
    IN  Max(MinScore, Min(MaxScore, Round(n)))

\* depth = Math.min(Math.max(options.depth, 1), 2)
MinDepth == 1
MaxDepth == 2
\* Mutant: the depth is not capped from above.
ClampDepthNoCap(d) == Max(d, MinDepth)
ClampDepth(d) == Min(Max(d, MinDepth), MaxDepth)

\* String(draftRubric.decision ?? "UNCLEAR"), for a string or an absent key
DraftDecision(draftRubric) ==
    LET d == Get(draftRubric, "decision")
    IN  IF IsString(d) THEN d.str ELSE "UNCLEAR"

\* Array.isArray(draftRubric.reasons) ? draftRubric.reasons.map(String) : []
DraftReasons(draftRubric) ==
    LET r == Get(draftRubric, "reasons")
    IN  IF IsArray(r) THEN r.arr ELSE <<>>

\* DecisionPacketSchema.parse(packet) does not throw: the decision is one of
\* the three, every score is an integer of 0..5
PacketValid(p) ==
    /\ p.rubric.decision \in Decisions
    /\ \A k \in {"painIntensity", "frequency", "buyerClarity", "budgetSignal",
                 "switchingCost", "competition", "distributionFeasibility",
                 "evidenceStrength"} : p.rubric[k] \in Scores

\* Mutant: the rubric keeps the evidence strength of the Referee draft.
RubricScoresFromDraft(draftRubric, strengthScore) ==
    [painIntensity |-> clampScore(Get(draftRubric, "painIntensity")),
     frequency |-> clampScore(Get(draftRubric, "frequency")),
     buyerClarity |-> clampScore(Get(draftRubric, "buyerClarity")),
     budgetSignal |-> clampScore(Get(draftRubric, "budgetSignal")),
     switchingCost |-> clampScore(Get(draftRubric, "switchingCost")),
     competition |-> clampScore(Get(draftRubric, "competition")),
     distributionFeasibility |->
         clampScore(Get(draftRubric, "distributionFeasibility")),
     evidenceStrength |-> clampScore(Get(draftRubric, "evidenceStrength"))]

\* rubricScores (lines 201-210)
RubricScores(draftRubric, strengthScore) ==
    [painIntensity |-> clampScore(Get(draftRubric, "painIntensity")),
     frequency |-> clampScore(Get(draftRubric, "frequency")),
     buyerClarity |-> clampScore(Get(draftRubric, "buyerClarity")),
     budgetSignal |-> clampScore(Get(draftRubric, "budgetSignal")),
     switchingCost |-> clampScore(Get(draftRubric, "switchingCost")),
     competition |-> clampScore(Get(draftRubric, "competition")),
     distributionFeasibility |->
         clampScore(Get(draftRubric, "distributionFeasibility")),
     evidenceStrength |-> strengthScore]

\* the packet assembled from the Referee draft (lines 198-282)
AssemblePacket(draft, evid, analysis, strengthScore) ==
    LET draftRubric == OrEmptyObject(Get(draft, "rubric"))
        draftAnalysis == OrEmptyObject(Get(draft, "analysis"))
        rubricScores == RubricScores(draftRubric, strengthScore)
        totalScore == computeTotal(rubricScores, strengthScore)
        draftDecision == DraftDecision(draftRubric)
        draftReasons == DraftReasons(draftRubric)
        killed == applyKillRules(rubricScores, analysis.wedgeOptions,
                                 Len(evid), draftDecision)
        finalReasons == IF killed.overridden
                        THEN killed.overrideReasons \o draftReasons
                        ELSE draftReasons
        draftWedges == Get(draftAnalysis, "wedgeOptions")
    IN  [evidence |-> evid,
         analysis |->
            [wedgeOptions |-> IF IsArray(draftWedges) THEN draftWedges.arr
                              ELSE analysis.wedgeOptions],
         rubric |->
            [painIntensity |-> rubricScores.painIntensity,
             frequency |-> rubricScores.frequency,
             buyerClarity |-> rubricScores.buyerClarity,
             budgetSignal |-> rubricScores.budgetSignal,
             switchingCost |-> rubricScores.switchingCost,
             competition |-> rubricScores.competition,
             distributionFeasibility |-> rubricScores.distributionFeasibility,
             evidenceStrength |-> rubricScores.evidenceStrength,
             total |-> totalScore,
             decision |-> killed.decision,
             reasons |-> finalReasons]]

(***************************************************************************)
(* Specification SpecKill: applyKillRules on every rubric, wedge list,     *)
(* evidence count and suggested decision within the bounds.                *)
(***************************************************************************)
\* The four dimensions applyKillRules does not read are fixed.
UnreadScore == 3
KillRubrics ==
    {[painIntensity |-> UnreadScore, frequency |-> UnreadScore,
      buyerClarity |-> bc, budgetSignal |-> UnreadScore,
      switchingCost |-> UnreadScore, competition |-> co,
      distributionFeasibility |-> df, evidenceStrength |-> es] :
        bc \in Scores, co \in Scores, df \in Scores, es \in Scores}
WedgeLists == SeqsUpTo({"wedge"}, MaxWedge)

KillIdle ==
    /\ rubric = None /\ wedgeOptions = None /\ evidenceCount = None
    /\ originalDecision = None /\ killResult = None
DedupeIdle == evidence = None /\ dedupeResult = None /\ dedupeAgain = None
ScoreIdle == strength = None /\ total = None
PipeIdle ==
    /\ options = None /\ depth = None /\ iteration = None
    /\ allEvidence = None /\ latestAnalysis = None /\ latestSkeptic = None
    /\ evidenceStrength = None /\ refereeDraft = None /\ packet = None
    /\ stepLog = None

ClampIdle == clampArg = None /\ clampResult = None
CredIdle == credUrl = None /\ credResult = None
RetryIdle ==
    /\ retryOptions = None /\ retryAttempt = None /\ retryLastError = None
    /\ retryLog = None /\ retryOutcome = None
ValidateIdle ==
    /\ validateArgs = None /\ validateAttempt = None
    /\ validateLastError = None /\ validateLog = None
    /\ validateOutcome = None
BrainstormIdle ==
    ideaPackets = None /\ salvageResponse = None /\ salvageResult = None
TokenIdle == totalTokens = None /\ tokenRuns = None
ExtraIdle == BrainstormIdle /\ TokenIdle
HelperIdle == ClampIdle /\ CredIdle /\ RetryIdle /\ ValidateIdle /\ ExtraIdle

KillInit ==
    /\ pc = "kill"
    /\ HelperIdle
    /\ DedupeIdle
    /\ ScoreIdle
    /\ PipeIdle
    /\ rubric \in KillRubrics
    /\ wedgeOptions \in WedgeLists
    /\ evidenceCount \in 0..MaxEvidenceCount
    /\ originalDecision \in Decisions
    /\ killResult = None

ApplyKill ==
    /\ pc = "kill"
    /\ killResult' = applyKillRules(rubric, wedgeOptions, evidenceCount, originalDecision)
    /\ pc' = "killed"
    /\ UNCHANGED <<rubric, wedgeOptions, evidenceCount, originalDecision>>
    /\ UNCHANGED <<dedupeVars, scoreVars, pipeVars, helperVars>>

KillNext == ApplyKill
SpecKill == KillInit /\ [][KillNext]_vars

(***************************************************************************)
(* Specification SpecDedupe: dedupeEvidence on every evidence list within  *)
(* the bounds, then again on its own output (run.ts re-dedupes the         *)
(* accumulated list in every iteration).                                   *)
(***************************************************************************)
DedupeUrls == {"https://g2.com/p", "https://G2.com/p/", "https://b.io/top-10"}
DedupeQuotes == {"ab", "AB ", "abc"}
DedupeCredibilities == {2, 4}
EvidenceItems ==
    [url : DedupeUrls, quote : DedupeQuotes, credibility : DedupeCredibilities]

DedupeInit ==
    /\ pc = "dedupe"
    /\ HelperIdle
    /\ KillIdle
    /\ ScoreIdle
    /\ PipeIdle
    /\ evidence \in SeqsUpTo(EvidenceItems, MaxEvidence)
    /\ dedupeResult = None
    /\ dedupeAgain = None

Dedupe ==
    /\ pc = "dedupe"
    /\ dedupeResult' = dedupeEvidence(evidence)
    /\ pc' = "deduped"
    /\ UNCHANGED <<evidence, dedupeAgain, killVars, scoreVars, pipeVars, helperVars>>

DedupeAgain ==
    /\ pc = "deduped"
    /\ dedupeAgain' = dedupeEvidence(dedupeResult.evidence)
    /\ pc' = "rededuped"
    /\ UNCHANGED <<evidence, dedupeResult, killVars, scoreVars, pipeVars, helperVars>>

DedupeNext == Dedupe \/ DedupeAgain
SpecDedupe == DedupeInit /\ [][DedupeNext]_vars

(***************************************************************************)
(* Claims about dedupeEvidence (checked under SpecDedupe).                 *)
(***************************************************************************)
Deduped == pc \in {"deduped", "rededuped"}
DistinctUrls(ev) ==
    \A i, j \in 1..Len(ev) :
        i # j => normalizeUrl(ev[i].url) # normalizeUrl(ev[j].url)
DistinctQuotes(ev) ==
    \A i, j \in 1..Len(ev) :
        i # j => normalizeQuote(ev[i].quote) # normalizeQuote(ev[j].quote)

\* C5: the records returned by dedupeEvidence contain no two records with the
\* same normalized URL and no two records with the same normalized quote.
C5_NoDuplicates ==
    Deduped => /\ DistinctUrls(dedupeResult.evidence)
               /\ DistinctQuotes(dedupeResult.evidence)

\* C6: dedupeEvidence applied to its own output returns the same records in
\* the same order, removes nothing and reports the same uniqueDomains.
C6_Idempotent ==
    pc = "rededuped" =>
        /\ dedupeAgain.evidence = dedupeResult.evidence
        /\ dedupeAgain.removedCount = 0
        /\ dedupeAgain.uniqueDomains = dedupeResult.uniqueDomains

\* the second pass changes nothing whenever the first output has no two
\* records with the same normalized quote
C6_IdempotentWithoutDuplicates ==
    (pc = "rededuped" /\ DistinctQuotes(dedupeResult.evidence)) =>
        /\ dedupeAgain.evidence = dedupeResult.evidence
        /\ dedupeAgain.removedCount = 0
        /\ dedupeAgain.uniqueDomains = dedupeResult.uniqueDomains

(***************************************************************************)
(* Specification SpecStrength: computeEvidenceStrength on evidence lists   *)
(* made, as in tests/scoring.test.ts, of blocks of records of one domain.  *)
(***************************************************************************)
\* makeEvidence(count, domain), with the credibility as a parameter;
\* ToString is the decimal numeral of the template literal
makeEvidence(count, domain, credibility) ==
    [i \in 1..count |->
        [url |-> "https://" \o domain \o "/page-" \o ToString(i - 1),
         quote |-> "Quote " \o ToString(i - 1),
         credibility |-> credibility]]

\* the blocks, each with the record counts tried: a review site, a forum of
\* tier 4, a subdomain of a forum, an unknown blog, and a listicle site of
\* low credibility
StrengthBlocks ==
    <<[domain |-> "g2.com", credibility |-> 5, counts |-> 0..MaxBlock],
      [domain |-> "quora.com", credibility |-> 4, counts |-> {0, MaxBlock}],
      [domain |-> "old.reddit.com", credibility |-> 4, counts |-> {0, MaxBlock}],
      [domain |-> "blog.io", credibility |-> 2, counts |-> {0, MaxBlock}],
      [domain |-> "spam.io/top-10", credibility |-> 1, counts |-> 0..MaxSpam]>>
StrengthCounts ==
    {<<c1, c2, c3, c4, c5>> :
        c1 \in StrengthBlocks[1].counts, c2 \in StrengthBlocks[2].counts,
        c3 \in StrengthBlocks[3].counts, c4 \in StrengthBlocks[4].counts,
        c5 \in StrengthBlocks[5].counts}

RECURSIVE ConcatBlocks(_, _)
ConcatBlocks(counts, k) ==
    IF k > Len(StrengthBlocks) THEN <<>>
    ELSE makeEvidence(counts[k], StrengthBlocks[k].domain,
                      StrengthBlocks[k].credibility)
         \o ConcatBlocks(counts, k + 1)

StrengthInit ==
    /\ pc = "strength"
    /\ HelperIdle
    /\ KillIdle
    /\ \E counts \in StrengthCounts : evidence = ConcatBlocks(counts, 1)
    /\ dedupeResult = None /\ dedupeAgain = None
    /\ ScoreIdle
    /\ PipeIdle

ComputeStrength ==
    /\ pc = "strength"
    /\ strength' = computeEvidenceStrength(evidence)
    /\ pc' = "scored"
    /\ UNCHANGED <<killVars, dedupeVars, total, pipeVars, helperVars>>

StrengthNext == ComputeStrength
SpecStrength == StrengthInit /\ [][StrengthNext]_vars

(***************************************************************************)
(* Claims about computeEvidenceStrength (checked under SpecStrength).      *)
(***************************************************************************)
Scored == pc = "scored"
Bracket(c) == IF c THEN 1 ELSE 0
Clamp(x, lo, hi) == IF x < lo THEN lo ELSE IF x > hi THEN hi ELSE x
FloorDiv6(n) == CHOOSE q \in 0..n : 6 * q <= n /\ n < 6 * (q + 1)

\* the formula of the claim, for a given reviewSourceCount
ClaimedStrength(reviewSourceCount) ==
    LET count == Len(evidence)
        base == IF FloorDiv6(count) > 5 THEN 5 ELSE FloorDiv6(count)
    IN  Clamp(base
              + Bracket(UniqueDomains(evidence) >= 5)
              + Bracket(reviewSourceCount >= 2)
              - Bracket(count > 0 /\ 10 * LowCredCount(evidence) > 4 * count)
              - Bracket(count < 10),
              0, 5)

\* C7: evidenceStrength is an integer in [0,5] equal to
\* clamp(min(5, floor(count/6)) + [uniqueDomains >= 5] + [reviewSourceCount >= 2]
\*       - [lowCredCount/count > 0.4] - [count < 10], 0, 5),
\* and exactly 0 for the empty list.
C7_StrengthFormula ==
    Scored =>
        /\ strength \in 0..5
        /\ strength = ClaimedStrength(ReviewSources(evidence))
        /\ (evidence = <<>> => strength = 0)

\* the upper clamp acts: base 4 with both bonuses and no penalty
C7_Witness ==
    /\ Scored
    /\ Len(evidence) >= 24
    /\ UniqueDomains(evidence) >= 5
    /\ ReviewSources(evidence) >= 2
    /\ 10 * LowCredCount(evidence) <= 4 * Len(evidence)
    /\ strength = 5

\* number of records whose domain is a tier-4 or tier-5 domain of the
\* credibility table
TierReviewSources ==
    Cardinality({i \in 1..Len(evidence) :
                    getDomain(evidence[i].url)
                        \in (Tier4Domains \cup Tier5Domains)})

\* C8: reviewSourceCount is the number of records whose domain is a tier-4 or
\* tier-5 domain of the credibility table, and the +1 bonus is applied exactly
\* when that number is at least 2.
C8_ReviewSourcesAreTier45 ==
    Scored => strength = ClaimedStrength(TierReviewSources)

(***************************************************************************)
(* Specification SpecTotal: computeTotal on every rubric of eight integer  *)
(* scores in [0,5].                                                        *)
(***************************************************************************)
Rubrics ==
    [painIntensity : Scores, frequency : Scores, buyerClarity : Scores,
     budgetSignal : Scores, switchingCost : Scores, competition : Scores,
     distributionFeasibility : Scores, evidenceStrength : Scores]

TotalInit ==
    /\ pc = "total"
    /\ HelperIdle
    /\ rubric \in Rubrics
    /\ wedgeOptions = None /\ evidenceCount = None
    /\ originalDecision = None /\ killResult = None
    /\ DedupeIdle
    /\ ScoreIdle
    /\ PipeIdle

ComputeTotal ==
    /\ pc = "total"
    /\ total' = computeTotal(rubric, rubric.evidenceStrength)
    /\ pc' = "totalled"
    /\ UNCHANGED <<killVars, dedupeVars, strength, pipeVars, helperVars>>

TotalNext == ComputeTotal
SpecTotal == TotalInit /\ [][TotalNext]_vars

(***************************************************************************)
(* Claims about computeTotal (checked under SpecTotal).                    *)
(***************************************************************************)
Dimensions ==
    <<"painIntensity", "frequency", "buyerClarity", "budgetSignal",
      "switchingCost", "competition", "distributionFeasibility",
      "evidenceStrength">>

RECURSIVE SumDimensions(_, _)
SumDimensions(r, k) ==
    IF k = 0 THEN 0 ELSE r[Dimensions[k]] + SumDimensions(r, k - 1)

\* C9: for eight rubric dimensions that are integers in [0,5], total equals
\* their arithmetic sum and lies in [0,40].
C9_TotalIsSum ==
    pc = "totalled" =>
        /\ total = SumDimensions(rubric, Len(Dimensions))
        /\ total \in 0..40

\* both ends of the range are reached
C9_Witness ==
    /\ pc = "totalled"
    /\ \A k \in 1..Len(Dimensions) : rubric[Dimensions[k]] = 5
    /\ total = 40

(***************************************************************************)
(* Claims about applyKillRules (checked under SpecKill).                   *)
(***************************************************************************)
Killed == pc = "killed"
HardFail == \/ rubric.evidenceStrength <= 1
            \/ rubric.distributionFeasibility <= 1
            \/ (rubric.competition <= 1 /\ Len(wedgeOptions) = 0)
SoftFail == rubric.buyerClarity <= 1 /\ evidenceCount < 10

\* C1: whenever evidenceStrength <= 1, or distributionFeasibility <= 1, or
\* competition <= 1 with no wedge option, the returned decision is NO_GO, for
\* every suggested decision and evidence count, also when rule 4 holds too.
C1_HardRulesForceNoGo ==
    (Killed /\ HardFail) => killResult.decision = "NO_GO"

C1_Witness ==
    /\ Killed
    /\ rubric.evidenceStrength <= 1 /\ rubric.distributionFeasibility > 1
    /\ rubric.competition > 1
    /\ SoftFail
    /\ originalDecision = "GO"
    /\ killResult.decision = "NO_GO"

\* The reasons the claim expects: one per hard rule that holds, in rule order.
ExpectedReasons ==
    LET pick(c, t) == IF c THEN <<t>> ELSE <<>>
    IN  pick(rubric.evidenceStrength <= 1, Reason1)
        \o pick(rubric.distributionFeasibility <= 1, Reason2)
        \o pick(rubric.competition <= 1 /\ Len(wedgeOptions) = 0, Reason3)

\* C2: a forced NO_GO carries exactly one reason per hard rule whose condition
\* holds, in the order rule 1, rule 2, rule 3 (one to three reasons), and never
\* the rule-4 reason.
C2_NoGoReasons ==
    (Killed /\ HardFail) =>
        /\ killResult.overrideReasons = ExpectedReasons
        /\ Len(killResult.overrideReasons) \in 1..3
        /\ \A i \in DOMAIN killResult.overrideReasons :
               killResult.overrideReasons[i] # UnclearReason

C2_Witness ==
    /\ Killed
    /\ rubric.evidenceStrength <= 1 /\ rubric.distributionFeasibility <= 1
    /\ rubric.competition <= 1 /\ Len(wedgeOptions) = 0
    /\ SoftFail
    /\ killResult.overrideReasons = <<Reason1, Reason2, Reason3>>

\* C3: overridden is, for a forced NO_GO, true exactly when the suggestion was
\* not NO_GO; for a forced UNCLEAR, true exactly when the suggestion was GO;
\* and false when no rule fires.
C3_OverriddenFlag ==
    Killed =>
        killResult.overridden =
            IF HardFail THEN originalDecision # "NO_GO"
            ELSE IF SoftFail THEN originalDecision = "GO"
            ELSE FALSE

C3_Witness ==
    /\ Killed /\ ~HardFail /\ SoftFail
    /\ originalDecision = "NO_GO"
    /\ killResult.decision = "UNCLEAR"
    /\ ~killResult.overridden

\* C4: when no hard rule fires, the result is UNCLEAR with exactly one reason
\* if buyerClarity <= 1 and evidenceCount < 10, and otherwise the suggested
\* decision unchanged, not overridden, with no reasons.
C4_SoftRuleOrUnchanged ==
    (Killed /\ ~HardFail) =>
        IF SoftFail
        THEN /\ killResult.decision = "UNCLEAR"
             /\ Len(killResult.overrideReasons) = 1
        ELSE /\ killResult.decision = originalDecision
             /\ ~killResult.overridden
             /\ killResult.overrideReasons = <<>>

C4_Witness ==
    /\ Killed
    /\ rubric.competition <= 1 /\ Len(wedgeOptions) >= 1
    /\ rubric.buyerClarity <= 1 /\ evidenceCount >= 10
    /\ rubric.evidenceStrength > 1 /\ rubric.distributionFeasibility > 1
    /\ originalDecision = "GO"
    /\ killResult.decision = "GO"


(***************************************************************************)
(* Specification SpecPipe: runPipeline.  One action for each stretch of    *)
(* code between two awaited calls; the responses of the four model roles   *)
(* are the inputs.                                                         *)
(***************************************************************************)
MaxScoutBlocks == 2
MaxOptionDepth == 3

\* the sites the Scout's evidence comes from, in rotation
ScoutDomains ==
    <<"g2.com", "www.reddit.com", "old.reddit.com", "blog.io", "spam.io/top-10">>
\* the credibility the Scout's response gives every record (1..5 by
\* EvidenceItemSchema)
ScoutCredibility == 3

ScoutRecord(i) ==
    [url |-> "https://" \o ScoutDomains[((i - 1) % Len(ScoutDomains)) + 1]
                \o "/page-" \o ToString(i),
     quote |-> "Quote " \o ToString(i),
     credibility |-> ScoutCredibility]

\* scoutResult.evidence: n records, numbered from first
ScoutBatch(first, n) ==
    [j \in 1..n |-> ScoutRecord(first + j - 1)]

\* the sizes of a Scout response: whole rounds of the sites, and a round cut
\* short after ScoutPartial records
ScoutPartial == 3
ScoutSizes ==
    {k * Len(ScoutDomains) + e : k \in 0..MaxScoutBlocks, e \in {0, ScoutPartial}}

\* the scores a Referee draft gives the seven judged dimensions
DraftProfile(c, bc, comp, df) ==
    [painIntensity |-> c, frequency |-> c, buyerClarity |-> bc,
     budgetSignal |-> c, switchingCost |-> c, competition |-> comp,
     distributionFeasibility |-> df]
DraftProfiles ==
    {DraftProfile(JNum(26), JNum(26), JNum(26), JNum(26)),
     DraftProfile(JNum(94), JNum(94), JNum(94), JNum(94)),
     DraftProfile(JNum(-20), JNum(-20), JNum(-20), JNum(-20)),
     DraftProfile(JStr("4"), JStr("4"), JStr("4"), JStr("4")),
     DraftProfile(JNum(30), JNum(10), JNum(30), JNum(30)),
     DraftProfile(JNum(30), JNum(30), JNum(14), JNum(30)),
     DraftProfile(JNum(30), JNum(30), JNum(30), JNum(5))}

\* what the draft says of the two code-computed numbers
DraftComputed ==
    {[evidenceStrength |-> Undefined, total |-> Undefined],
     [evidenceStrength |-> JNum(50), total |-> JNum(400)]}

DraftDecisions == {JStr("GO"), JStr("NO_GO"), JStr("MAYBE"), Undefined}
DraftWedges == {Undefined, JArr(<<>>), JArr(<<"draft wedge">>)}

DraftRubricOf(prof, comp, dec) ==
    [painIntensity |-> prof.painIntensity, frequency |-> prof.frequency,
     buyerClarity |-> prof.buyerClarity, budgetSignal |-> prof.budgetSignal,
     switchingCost |-> prof.switchingCost, competition |-> prof.competition,
     distributionFeasibility |-> prof.distributionFeasibility,
     evidenceStrength |-> comp.evidenceStrength, total |-> comp.total,
     decision |-> dec, reasons |-> JArr(<<"draft reason">>)]

\* the values safeJsonParse can return for the Referee's response
Drafts ==
    {[rubric |-> JObj(DraftRubricOf(prof, comp, dec)),
      analysis |-> JObj([wedgeOptions |-> w])] :
        prof \in DraftProfiles, comp \in DraftComputed,
        dec \in DraftDecisions, w \in DraftWedges}
    \cup {[rubric |-> JStr("n/a"), analysis |-> Undefined],
          [rubric |-> Undefined, analysis |-> JStr("n/a")]}

SkepticQueries == {<<>>, <<"follow-up query">>}

PipeInit ==
    /\ pc = "start"
    /\ HelperIdle
    /\ KillIdle
    /\ DedupeIdle
    /\ ScoreIdle
    /\ options \in [depth : 0..MaxOptionDepth]
    /\ depth = None /\ iteration = None
    /\ allEvidence = None /\ latestAnalysis = None /\ latestSkeptic = None
    /\ evidenceStrength = None /\ refereeDraft = None /\ packet = None
    /\ stepLog = <<>>

\* lines 35-88: up to the first runScout call
Start ==
    /\ pc = "start"
    /\ depth' = ClampDepth(options.depth)
    /\ iteration' = 1
    /\ allEvidence' = <<>>
    /\ stepLog' = <<"scout">>
    /\ pc' = "scout"
    /\ UNCHANGED <<killVars, dedupeVars, scoreVars, helperVars, options, latestAnalysis,
                   latestSkeptic, evidenceStrength, refereeDraft, packet>>

\* lines 96-138: runScout returns; merge, dedupe, call runAnalyst
ScoutReturns ==
    /\ pc = "scout"
    /\ \E n \in ScoutSizes, first \in {1, Len(allEvidence) + 1} :
          allEvidence' =
              dedupeEvidence(allEvidence \o ScoutBatch(first, n)).evidence
    /\ stepLog' = stepLog \o <<"dedupe", "analyst">>
    /\ pc' = "analyst"
    /\ UNCHANGED <<killVars, dedupeVars, scoreVars, helperVars, options, depth, iteration,
                   latestAnalysis, latestSkeptic, evidenceStrength,
                   refereeDraft, packet>>

\* lines 177-185 with 71-88: the end of an iteration; either the next
\* runScout call, or, when the loop ends or breaks, the runReferee call
EndIteration(skeptic) ==
    /\ iteration' = iteration + 1
    /\ IF iteration + 1 <= depth /\ Len(skeptic.missingEvidenceQueries) > 0
       THEN /\ pc' = "scout"
            /\ stepLog' = Append(stepLog, "scout")
            /\ UNCHANGED evidenceStrength
       ELSE /\ pc' = "referee"
            /\ stepLog' = stepLog \o <<"evidenceStrength", "referee">>
            /\ evidenceStrength' = computeEvidenceStrength(allEvidence)

\* lines 139-160: runAnalyst returns
AnalystReturns ==
    /\ pc = "analyst"
    /\ \E w \in WedgeLists : latestAnalysis' = [wedgeOptions |-> w]
    /\ IF iteration < depth \/ depth = 1
       THEN /\ pc' = "skeptic"
            /\ stepLog' = Append(stepLog, "skeptic")
            /\ UNCHANGED <<iteration, evidenceStrength>>
       ELSE EndIteration(latestSkeptic)
    /\ UNCHANGED <<killVars, dedupeVars, scoreVars, helperVars, options, depth,
                   allEvidence, latestSkeptic, refereeDraft, packet>>

\* lines 160-177: runSkeptic returns
SkepticReturns ==
    /\ pc = "skeptic"
    /\ \E q \in SkepticQueries :
          /\ latestSkeptic' = [missingEvidenceQueries |-> q]
          /\ EndIteration([missingEvidenceQueries |-> q])
    /\ UNCHANGED <<killVars, dedupeVars, scoreVars, helperVars, options, depth,
                   allEvidence, latestAnalysis, refereeDraft, packet>>

\* lines 185-287: runReferee returns; the packet is assembled and validated
RefereeReturns ==
    /\ pc = "referee"
    /\ \E draft \in Drafts :
          LET p == AssemblePacket(draft, allEvidence, latestAnalysis,
                                  evidenceStrength)
          IN  /\ refereeDraft' = draft
              /\ stepLog' = Append(stepLog, "killRules")
              /\ IF PacketValid(p)
                 THEN packet' = p /\ pc' = "done"
                 ELSE packet' = None /\ pc' = "failed"
    /\ UNCHANGED <<killVars, dedupeVars, scoreVars, helperVars, options, depth, iteration,
                   allEvidence, latestAnalysis, latestSkeptic,
                   evidenceStrength>>

\* lines 318-322: an awaited call throws; the run exits with status 1
CallFails ==
    /\ pc \in {"scout", "analyst", "skeptic", "referee"}
    /\ pc' = "failed"
    /\ UNCHANGED <<killVars, dedupeVars, scoreVars, pipeVars, helperVars>>

PipeNext ==
    \/ Start
    \/ ScoutReturns
    \/ AnalystReturns
    \/ SkepticReturns
    \/ RefereeReturns
    \/ CallFails
SpecPipe == PipeInit /\ [][PipeNext]_vars

(***************************************************************************)
(* Claims about runPipeline (checked under SpecPipe).                      *)
(***************************************************************************)
Produced == pc = "done"

MaxTenths == 70

Null == [null |-> TRUE]
JBool(b) == [bool |-> b]

\* numbers from -MaxTenths/10 to MaxTenths/10 in steps of 0.1, and the
\* values that are not numbers
ClampInputs ==
    {JNum(t) : t \in (0 - MaxTenths)..MaxTenths}
    \cup {Undefined, Null, JBool(TRUE), JStr("4"), JStr("high"),
          JArr(<<>>), JObj(<<>>)}

ClampInit ==
    /\ pc = "clamp"
    /\ KillIdle
    /\ DedupeIdle
    /\ ScoreIdle
    /\ PipeIdle
    /\ CredIdle
    /\ RetryIdle
    /\ ValidateIdle
    /\ ExtraIdle
    /\ clampArg \in ClampInputs
    /\ clampResult = None

ClampScore ==
    /\ pc = "clamp"
    /\ clampResult' = clampScore(clampArg)
    /\ pc' = "clamped"
    /\ UNCHANGED <<killVars, dedupeVars, scoreVars, pipeVars, clampArg,
                   credVars, retryVars, validateVars, extraVars>>

ClampNext == ClampScore
SpecClamp == ClampInit /\ [][ClampNext]_vars

\* C11: whatever value the rubric source supplies for a dimension, the score
\* entering the rubric is an integer in [0,5]: 0 for a value that is not a
\* number, 0 for a number below 0, 5 for a number above 5; the coercion
\* always returns.
C11_ClampedScore ==
    pc = "clamped" =>
        /\ clampResult \in 0..5
        /\ ~IsNumber(clampArg) => clampResult = 0
        /\ (IsNumber(clampArg) /\ clampArg.tenths < 0) => clampResult = 0
        /\ (IsNumber(clampArg) /\ clampArg.tenths > 50) => clampResult = 5

\* a number above 5 has been clamped to 5
C11_Witness ==
    /\ pc = "clamped"
    /\ IsNumber(clampArg)
    /\ clampArg.tenths > 50
    /\ clampResult = 5


(***************************************************************************)
(* Specification SpecCredibility: getCredibility on URLs made of a scheme, *)
(* a host prefix, a domain and a path.                                     *)
(***************************************************************************)
TableDomains == Tier5Domains \cup Tier4Domains \cup Tier3Domains
\* domains not in the table
OtherDomains == {"random-blog.io", "somesite.com", "constructor"}
\* "" makes a URL the URL constructor rejects
CredSchemes == {"https://", "http://", ""}
CredPrefixes == {"", "www.", "old.", "WWW.old."}
CredPaths == {"", "/r/test", "/top-10-tools", "/best-crm-tools"}

CredUrls ==
    {sc \o pre \o d \o pa :
        sc \in CredSchemes, pre \in CredPrefixes,
        d \in TableDomains \cup OtherDomains, pa \in CredPaths}

CredInit ==
    /\ pc = "credibility"
    /\ KillIdle
    /\ DedupeIdle
    /\ ScoreIdle
    /\ PipeIdle
    /\ ClampIdle
    /\ RetryIdle
    /\ ValidateIdle
    /\ ExtraIdle
    /\ credUrl \in CredUrls
    /\ credResult = None

GetCredibility ==
    /\ pc = "credibility"
    /\ credResult' = getCredibility(credUrl)
    /\ pc' = "credited"
    /\ UNCHANGED <<killVars, dedupeVars, scoreVars, pipeVars, clampVars,
                   credUrl, retryVars, validateVars, extraVars>>

CredNext == GetCredibility
SpecCredibility == CredInit /\ [][CredNext]_vars

(***************************************************************************)
(* Claims about getCredibility (checked under SpecCredibility).            *)
(***************************************************************************)
Credited == pc = "credited"
TierOf(d) == IF d \in Tier5Domains THEN 5 ELSE IF d \in Tier4Domains THEN 4 ELSE 3

\* the value the claimed order gives
ClaimedCredibility(u) ==
    LET parsed == ParseUrl(u)
        host == stripWww(parsed.hostname)
        lastTwo == LastTwoLabels(host)
    IN  IF ~parsed.ok THEN 2
        ELSE IF host \in TableDomains THEN TierOf(host)
        ELSE IF CountDots(host) >= 2 /\ lastTwo \in TableDomains
             THEN TierOf(lastTwo)
        ELSE IF LISTICLE_PATTERNS(u) THEN 1
        ELSE 2

\* C12: getCredibility returns an integer in [1,5] chosen in this order: the
\* tier of the www-stripped hostname if the table has it; else, for a
\* hostname of more than two labels, the tier of its last two labels if the
\* table has that; else 1 if the URL matches a listicle pattern; else 2; and
\* 2 for a URL that does not parse.
C12_CredibilityOrder ==
    Credited =>
        /\ credResult \in 1..5
        /\ credResult = ClaimedCredibility(credUrl)

\* the claimed order holds for every hostname that is not a name the table
\* object inherits
C12_OrderForOwnKeys ==
    (Credited /\ getDomain(credUrl) \notin InheritedKeys) =>
        /\ credResult \in 1..5
        /\ credResult = ClaimedCredibility(credUrl)


\* s.endsWith(p)
EndsWith(s, p) ==
    Len(s) >= Len(p) /\ SubSeq(s, Len(s) - Len(p) + 1, Len(s)) = p

\* the hostname h is d, "www." + d, or a subdomain of d
HostOf(h, d) == h = d \/ EndsWith(h, "." \o d)

\* C13: for every domain d of the tier table, getCredibility of a URL whose
\* hostname is d, "www." + d or any subdomain of d returns the tier of d.
C13_TierOfKnownDomain ==
    Credited =>
        LET parsed == ParseUrl(credUrl)
        IN  \A d \in TableDomains :
                (parsed.ok /\ HostOf(parsed.hostname, d)) =>
                    credResult = TierOf(d)

\* the same, for the domains of the table that have two labels
C13_TierOfTwoLabelDomain ==
    Credited =>
        LET parsed == ParseUrl(credUrl)
        IN  \A d \in TableDomains :
                (parsed.ok /\ HostOf(parsed.hostname, d) /\ CountDots(d) = 1) =>
                    credResult = TierOf(d)


(***************************************************************************)
(* Specification SpecUrlPair: dedupeEvidence on two records with different *)
(* quotes whose URLs are variants of one page.                             *)
(***************************************************************************)
\* "" makes a URL the URL constructor rejects
PairSchemes == {"https://", ""}
PairLabels == {"", "www."}
PairHosts == {"example.com", "Example.com"}
PairPaths == {"", "/page", "/Page/"}
PairTails == {"", "?q=1", "#top"}

PairUrls ==
    {sc \o w \o h \o pa \o t :
        sc \in PairSchemes, w \in PairLabels, h \in PairHosts,
        pa \in PairPaths, t \in PairTails}

PairRecord(u, q) == [url |-> u, quote |-> q, credibility |-> 3]

PairInit ==
    /\ pc = "dedupe"
    /\ HelperIdle
    /\ KillIdle
    /\ ScoreIdle
    /\ PipeIdle
    /\ \E u1 \in PairUrls, u2 \in PairUrls :
          evidence = <<PairRecord(u1, "Quote A"), PairRecord(u2, "Quote B")>>
    /\ dedupeResult = None
    /\ dedupeAgain = None

SpecUrlPair == PairInit /\ [][DedupeNext]_vars

(***************************************************************************)
(* Claims about normalizeUrl (checked under SpecUrlPair).                  *)
(***************************************************************************)
\* s without its query string and fragment
DropQueryFragment(s) == SubSeq(s, 1, FirstOf(s, {"?", "#"}) - 1)

\* s without a leading "www." host label
DropWwwLabel(s) ==
    IF StartsWith(s, "https://www.") THEN "https://" \o DropFirst(s, 12)
    ELSE IF StartsWith(s, "www.") THEN DropFirst(s, 4)
    ELSE s

\* two URLs with the same ClaimedNormalUrl differ only in letter case, a
\* leading "www." label, trailing slashes, query string or fragment
ClaimedNormalUrl(u) ==
    stripTrailingSlashes(DropWwwLabel(DropQueryFragment(toLowerCase(u))))

\* the same without the "www." label, and with query string and fragment
\* dropped only from a URL that parses
AmendedNormalUrl(u) ==
    IF ParseUrl(u).ok
    THEN stripTrailingSlashes(DropQueryFragment(toLowerCase(u)))
    ELSE stripTrailingSlashes(toLowerCase(u))

\* C14 as stated: two records whose URLs differ only in letter case, in a
\* leading "www." host label, in trailing slashes of the path, or in query
\* string or fragment have the same normalized URL, and dedupeEvidence never
\* returns both.
C14_UrlVariantsCollapse ==
    (Deduped /\ ClaimedNormalUrl(evidence[1].url)
                   = ClaimedNormalUrl(evidence[2].url)) =>
        /\ normalizeUrl(evidence[1].url) = normalizeUrl(evidence[2].url)
        /\ Len(dedupeResult.evidence) = 1

\* C14 amended: two records whose URLs differ only in letter case or in
\* trailing slashes, or, for URLs that parse, in query string or fragment,
\* have the same normalized URL and only the first is returned; a leading
\* "www." label is kept, so two records whose URLs differ in it, and two
\* unparseable URLs that differ in a query string or fragment, are both
\* returned.
C14_UrlVariantsCollapseNoWww ==
    Deduped =>
        IF AmendedNormalUrl(evidence[1].url) = AmendedNormalUrl(evidence[2].url)
        THEN /\ normalizeUrl(evidence[1].url) = normalizeUrl(evidence[2].url)
             /\ Len(dedupeResult.evidence) = 1
             /\ dedupeResult.evidence[1].url = evidence[1].url
        ELSE /\ normalizeUrl(evidence[1].url) # normalizeUrl(evidence[2].url)
             /\ Len(dedupeResult.evidence) = 2

\* two URLs that differ in case, slashes and query are collapsed
C14_Witness ==
    /\ Deduped
    /\ evidence[1].url = "https://Example.com/Page/?q=1"
    /\ evidence[2].url = "https://example.com/page"
    /\ Len(dedupeResult.evidence) = 1


(***************************************************************************)
(* Specification SpecConsolidate: dedupeEvidence on lists of records of    *)
(* one site under two spellings, and of a URL that does not parse.         *)
(***************************************************************************)
MaxRecords == 3

ConsolidateUrls == {"https://www.g2.com/p", "https://G2.com/p/", "not a url"}
ConsolidateQuotes == {"ab", "abc"}
ConsolidateItems ==
    [url : ConsolidateUrls, quote : ConsolidateQuotes,
     credibility : DedupeCredibilities]

ConsolidateInit ==
    /\ pc = "dedupe"
    /\ HelperIdle
    /\ KillIdle
    /\ ScoreIdle
    /\ PipeIdle
    /\ evidence \in SeqsUpTo(ConsolidateItems, MaxRecords)
    /\ dedupeResult = None
    /\ dedupeAgain = None

SpecConsolidate == ConsolidateInit /\ [][DedupeNext]_vars

(***************************************************************************)
(* Claims about the passes of the loop of dedupeEvidence (checked under    *)
(* SpecDedupe and SpecConsolidate).                                        *)
(***************************************************************************)
\* the normalized quotes of the records kept after the first n passes
KeptQuotes(items, n) ==
    LET st == DedupeLoop(items, n)
    IN  {normalizeQuote(st.seen[i].item.quote) : i \in 1..Len(st.seen)}

\* the normalized URLs of the records kept after the first n passes
KeptUrls(items, n) ==
    LET st == DedupeLoop(items, n)
    IN  {normalizeUrl(st.seen[i].item.url) : i \in 1..Len(st.seen)}

\* C15: in input order, every record whose normalized quote is that of a
\* record already kept, under any URL, is dropped whatever its URL or
\* credibility: the kept records stay as they are and removedCount grows
\* by 1.
C15_KeptQuoteDropsRecord ==
    Deduped =>
        \A n \in 1..Len(evidence) :
            normalizeQuote(evidence[n].quote) \in KeptQuotes(evidence, n - 1) =>
                /\ DedupeLoop(evidence, n).seen
                       = DedupeLoop(evidence, n - 1).seen
                /\ DedupeLoop(evidence, n).removedCount
                       = DedupeLoop(evidence, n - 1).removedCount + 1

\* the same for the quotes that were kept as the first record of their URL
C15_FirstKeptQuoteDropsRecord ==
    Deduped =>
        \A n \in 1..Len(evidence) :
            normalizeQuote(evidence[n].quote)
                    \in DedupeLoop(evidence, n - 1).seenQuotes =>
                /\ DedupeLoop(evidence, n).seen
                       = DedupeLoop(evidence, n - 1).seen
                /\ DedupeLoop(evidence, n).removedCount
                       = DedupeLoop(evidence, n - 1).removedCount + 1


\* the normalized quotes of all records kept at some point of the first n
\* passes
EverKeptQuotes(items, n) == UNION {KeptQuotes(items, k) : k \in 0..n}

\* C16: when the incoming record has a new normalized quote and a normalized
\* URL that is already kept, one record remains for that URL: the incoming
\* one if its credibility is strictly higher or its quote strictly longer,
\* the kept one otherwise; the other kept records stay and removedCount
\* grows by 1 in both cases.
C16_UrlCollisionKeepsOne ==
    Deduped =>
        \A n \in 1..Len(evidence) :
            LET before == DedupeLoop(evidence, n - 1)
                after == DedupeLoop(evidence, n)
                item == evidence[n]
                slots == {i \in 1..Len(before.seen) :
                            before.seen[i].key = normalizeUrl(item.url)}
            IN  (/\ normalizeQuote(item.quote)
                        \notin EverKeptQuotes(evidence, n - 1)
                 /\ normalizeUrl(item.url) \in KeptUrls(evidence, n - 1)) =>
                    /\ Cardinality(slots) = 1
                    /\ Len(after.seen) = Len(before.seen)
                    /\ \A i \in 1..Len(before.seen) :
                          after.seen[i].item =
                              IF i \in slots
                                 /\ (\/ item.credibility
                                          > before.seen[i].item.credibility
                                     \/ Len(item.quote)
                                          > Len(before.seen[i].item.quote))
                              THEN item
                              ELSE before.seen[i].item
                    /\ after.removedCount = before.removedCount + 1

\* a record of lower credibility has replaced the kept one by its longer quote
C16_Witness ==
    /\ Deduped
    /\ Len(evidence) = 2
    /\ normalizeUrl(evidence[1].url) = normalizeUrl(evidence[2].url)
    /\ evidence[2].credibility < evidence[1].credibility
    /\ Len(evidence[2].quote) > Len(evidence[1].quote)
    /\ Len(dedupeResult.evidence) = 1
    /\ dedupeResult.evidence[1].quote = evidence[2].quote
    /\ dedupeResult.removedCount = 1


\* C17: every record dedupeEvidence returns has the credibility that
\* getCredibility gives its own URL, whatever credibility it arrived with.
C17_CredibilityFromUrl ==
    Deduped =>
        \A i \in 1..Len(dedupeResult.evidence) :
            dedupeResult.evidence[i].credibility
                = getCredibility(dedupeResult.evidence[i].url)

\* a record that arrived with credibility 2 is returned with the tier 5 of
\* its domain
C17_Witness ==
    /\ Deduped
    /\ Len(evidence) = 1
    /\ evidence[1].credibility = 2
    /\ Len(dedupeResult.evidence) = 1
    /\ dedupeResult.evidence[1].url = evidence[1].url
    /\ dedupeResult.evidence[1].credibility = 5


\* the hostname of u without a leading "www.", or u itself when u does not
\* parse
ClaimedDomain(u) ==
    LET parsed == ParseUrl(u)
    IN  IF ~parsed.ok THEN u
        ELSE IF StartsWith(parsed.hostname, "www.")
        THEN DropFirst(parsed.hostname, 4)
        ELSE parsed.hostname

\* C18: uniqueDomains is the number of distinct hostnames, leading "www."
\* stripped, among the URLs of the records returned, an unparseable URL
\* counting as its own string; so it is 0 for an empty result and at most the
\* number of records returned.
C18_UniqueDomainCount ==
    Deduped =>
        /\ dedupeResult.uniqueDomains
               = Cardinality({ClaimedDomain(dedupeResult.evidence[i].url) :
                                 i \in 1..Len(dedupeResult.evidence)})
        /\ dedupeResult.evidence = <<>> => dedupeResult.uniqueDomains = 0
        /\ dedupeResult.uniqueDomains <= Len(dedupeResult.evidence)

\* two records of one site are returned, one with and one without "www.":
\* one domain
C18_Witness ==
    /\ Deduped
    /\ Len(dedupeResult.evidence) = 2
    /\ ParseUrl(dedupeResult.evidence[1].url).hostname
           # ParseUrl(dedupeResult.evidence[2].url).hostname
    /\ \A i \in 1..2 : ParseUrl(dedupeResult.evidence[i].url).ok
    /\ dedupeResult.uniqueDomains = 1

(***************************************************************************)
(* utils/retry.ts: withRetry.  fn is the caller's function; each call of   *)
(* it either resolves with a result or rejects with a thrown value.        *)
(***************************************************************************)
\* s.includes(p)
includes(s, p) == \E i \in 1..(Len(s) + 1) : MatchAt(s, i, p)

DEFAULT_RETRYABLE_No502 == {429, 500, 503}
DEFAULT_RETRYABLE == {429, 500, 502, 503}
DefaultMaxAttempts == 3

\* a thrown value: whether it is an Error, whether it has a property
\* "status" and its value, and its message
Thrown(isErr, hasSt, st, msg) ==
    [instanceOfError |-> isErr, hasStatus |-> hasSt, status |-> st,
     message |-> msg]

\* status !== undefined && retryableStatuses.includes(status), with
\* getErrorStatus reading the property "status" of an object
isRetryableStatus(error, retryableStatuses) ==
    error.hasStatus /\ error.status \in retryableStatuses

isNetworkLikeError(error) ==
    /\ error.instanceOfError
    /\ LET msg == toLowerCase(error.message)
       IN \/ includes(msg, "timeout")
          \/ includes(msg, "econnreset")
          \/ includes(msg, "econnrefused")
          \/ includes(msg, "fetch failed")

\* the destructuring default of maxAttempts
maxAttemptsOf(opts) ==
    IF opts.hasMaxAttempts THEN opts.maxAttempts ELSE DefaultMaxAttempts

MaxAttemptsOption == 2
RetryOptionsSet ==
    {[hasMaxAttempts |-> FALSE, maxAttempts |-> 0]}
        \cup {[hasMaxAttempts |-> TRUE, maxAttempts |-> k] :
                 k \in 0..MaxAttemptsOption}

RetryableStatusErrors ==
    {Thrown(TRUE, TRUE, st, "Request failed") : st \in {429, 500, 502, 503}}
        \cup {Thrown(FALSE, TRUE, 503, "")}
TimeoutNetworkErrors ==
    {Thrown(TRUE, FALSE, 0, msg) :
        msg \in {"Connection timeout", "read ECONNRESET",
                 "connect ECONNREFUSED", "fetch failed"}}
OtherErrors ==
    {Thrown(TRUE, TRUE, st, "Request failed") : st \in {400, 401, 404}}
        \cup {Thrown(TRUE, FALSE, 0, "Invalid API key"),
              Thrown(FALSE, FALSE, 0, "")}
ThrownValues == RetryableStatusErrors \cup TimeoutNetworkErrors \cup OtherErrors
FnResults == {[result |-> "r1"], [result |-> "r2"]}

Resolved(v) == [ok |-> TRUE, value |-> v, error |-> None]
Rejected(e) == [ok |-> FALSE, value |-> None, error |-> e]
Returns(v) == [kind |-> "returned", value |-> v, error |-> None]
Throws(e) == [kind |-> "thrown", value |-> None, error |-> e]

RetryInit ==
    /\ pc = "retry_loop"
    /\ KillIdle
    /\ DedupeIdle
    /\ ScoreIdle
    /\ PipeIdle
    /\ ClampIdle
    /\ CredIdle
    /\ ValidateIdle
    /\ ExtraIdle
    /\ retryOptions \in RetryOptionsSet
    /\ retryAttempt = 1
    /\ retryLastError = Undefined
    /\ retryLog = <<>>
    /\ retryOutcome = None

RetryOthers ==
    UNCHANGED <<killVars, dedupeVars, scoreVars, pipeVars, clampVars, credVars,
                validateVars, extraVars>>

\* the test of the for loop, and the throw after it
RetryLoopTest ==
    /\ pc = "retry_loop"
    /\ IF retryAttempt <= maxAttemptsOf(retryOptions)
       THEN /\ pc' = "retry_call"
            /\ UNCHANGED retryOutcome
       ELSE /\ pc' = "retry_done"
            /\ retryOutcome' = Throws(retryLastError)
    /\ UNCHANGED <<retryOptions, retryAttempt, retryLastError, retryLog>>
    /\ RetryOthers

\* return await fn(), fn resolving
FnResolves ==
    /\ pc = "retry_call"
    /\ \E v \in FnResults :
          /\ retryLog' = Append(retryLog, Resolved(v))
          /\ retryOutcome' = Returns(v)
    /\ pc' = "retry_done"
    /\ UNCHANGED <<retryOptions, retryAttempt, retryLastError>>
    /\ RetryOthers

\* return await fn(), fn rejecting: the catch block up to the sleep
FnRejects ==
    /\ pc = "retry_call"
    /\ \E error \in ThrownValues :
          /\ retryLog' = Append(retryLog, Rejected(error))
          /\ retryLastError' = error
          /\ IF ~isRetryableStatus(error, DEFAULT_RETRYABLE)
                /\ ~isNetworkLikeError(error)
             THEN /\ retryOutcome' = Throws(error)
                  /\ pc' = "retry_done"
                  /\ UNCHANGED retryAttempt
             ELSE /\ UNCHANGED retryOutcome
                  /\ IF retryAttempt < maxAttemptsOf(retryOptions)
                     THEN /\ pc' = "retry_sleep"
                          /\ UNCHANGED retryAttempt
                     ELSE /\ pc' = "retry_loop"
                          /\ retryAttempt' = retryAttempt + 1
    /\ UNCHANGED retryOptions
    /\ RetryOthers

\* await sleep(delay) ends, and attempt++
SleepEnds ==
    /\ pc = "retry_sleep"
    /\ retryAttempt' = retryAttempt + 1
    /\ pc' = "retry_loop"
    /\ UNCHANGED <<retryOptions, retryLastError, retryLog, retryOutcome>>
    /\ RetryOthers

RetryNext == RetryLoopTest \/ FnResolves \/ FnRejects \/ SleepEnds
SpecRetry == RetryInit /\ [][RetryNext]_vars

\* the failures the retry wrapper is documented to retry
DocumentedRetryable(e) ==
    \/ e \in TimeoutNetworkErrors
    \/ e.hasStatus /\ e.status \in {429, 500, 502, 503}
RetryRunning == pc \in {"retry_loop", "retry_call", "retry_sleep"}
AllButLastRetryable ==
    \A i \in 1..(Len(retryLog) - 1) :
        ~retryLog[i].ok /\ DocumentedRetryable(retryLog[i].error)

\* C19: fn is called at most maxAttempts times (3 when the option is absent);
\* the first result fn resolves with is returned and fn is not called again;
\* a failure that is documented as retryable is followed by another call
\* while calls remain; any other failure is thrown on the spot; after
\* maxAttempts retryable failures the last of them is thrown.
C19_RetryContract ==
    /\ pc \in {"retry_loop", "retry_call", "retry_sleep", "retry_done"}
    /\ Len(retryLog) <= maxAttemptsOf(retryOptions)
    /\ AllButLastRetryable
    /\ RetryRunning =>
          /\ retryOutcome = None
          /\ \A i \in 1..Len(retryLog) :
                ~retryLog[i].ok /\ DocumentedRetryable(retryLog[i].error)
          /\ pc = "retry_call" => Len(retryLog) < maxAttemptsOf(retryOptions)
          /\ pc = "retry_sleep" => Len(retryLog) < maxAttemptsOf(retryOptions)
    /\ (pc = "retry_done" /\ retryLog # <<>>) =>
          LET last == retryLog[Len(retryLog)]
          IN IF last.ok
             THEN retryOutcome = Returns(last.value)
             ELSE /\ retryOutcome = Throws(last.error)
                  /\ DocumentedRetryable(last.error)
                        => Len(retryLog) = maxAttemptsOf(retryOptions)
    /\ (pc = "retry_done" /\ retryLog = <<>>) =>
          maxAttemptsOf(retryOptions) = 0

\* with the default options, two retryable failures (a 502 and a network
\* error) were followed by a third call, whose 503 is thrown
C19_Witness ==
    /\ pc = "retry_done"
    /\ ~retryOptions.hasMaxAttempts
    /\ Len(retryLog) = 3
    /\ retryLog[1].error.status = 502
    /\ retryLog[2].error \in TimeoutNetworkErrors
    /\ retryOutcome = Throws(Thrown(TRUE, TRUE, 503, "Request failed"))

(***************************************************************************)
(* utils/json-parse.ts: safeJsonParse.  JSON.parse is modelled on the      *)
(* documents of JsonValueOf: surrounding whitespace is skipped, one of the *)
(* documents is parsed to its value, any other text throws.                *)
(***************************************************************************)
\* s.indexOf(p, i), 1-based; 0 when p does not occur
RECURSIVE indexOfFrom(_, _, _)
indexOfFrom(s, p, i) ==
    IF i + Len(p) - 1 > Len(s) THEN 0
    ELSE IF MatchAt(s, i, p) THEN i
    ELSE indexOfFrom(s, p, i + 1)

\* s.lastIndexOf(c) for a single character, 1-based; 0 when c does not occur
RECURSIVE lastIndexOfBefore(_, _, _)
lastIndexOfBefore(s, c, i) ==
    IF i < 1 THEN 0
    ELSE IF Char(s, i) = c THEN i
    ELSE lastIndexOfBefore(s, c, i - 1)
lastIndexOf(s, c) == lastIndexOfBefore(s, c, Len(s))

JsonDocuments == {"{\"ok\":1}", "{\"ok\":1,\"extra\":2}", "{\"bad\":1}", "[1]"}
JsonValueOf ==
    [t \in JsonDocuments |->
        CASE t = "{\"ok\":1}" -> JObj([ok |-> JNum(10)])
          [] t = "{\"ok\":1,\"extra\":2}" ->
                 JObj([ok |-> JNum(10), extra |-> JNum(20)])
          [] t = "{\"bad\":1}" -> JObj([bad |-> JNum(10)])
          [] t = "[1]" -> JArr(<<JNum(10)>>)]

Parsed(v) == [ok |-> TRUE, value |-> v, message |-> ""]
Failed(msg) == [ok |-> FALSE, value |-> Undefined, message |-> msg]

JSON_parse(text) ==
    IF trim(text) \in JsonDocuments
    THEN Parsed(JsonValueOf[trim(text)])
    ELSE Failed("Unexpected token")

\* the fence of a code block: three backquotes.  A string of this language
\* cannot hold a backquote, so "~" stands for it in every response.
Fence == "~~~"

\* raw.match(/<fence>(?:json)?\s*\n?([\s\S]*?)\n?\s*<fence>/): the text
\* between the first fence, with its optional "json", and the next fence
FenceOpen(raw) == indexOfFrom(raw, Fence, 1)
FenceBodyStart(raw) ==
    IF MatchAt(raw, FenceOpen(raw) + 3, "json")
    THEN FenceOpen(raw) + 7
    ELSE FenceOpen(raw) + 3
FenceClose(raw) == indexOfFrom(raw, Fence, FenceBodyStart(raw))
fenceMatch(raw) == FenceOpen(raw) # 0 /\ FenceClose(raw) # 0
FenceBody(raw) == SubSeq(raw, FenceBodyStart(raw), FenceClose(raw) - 1)

\* raw.search(/[\[{]/) and Math.max(lastIndexOf("}"), lastIndexOf("]")),
\* 1-based with 0 for the -1 of JavaScript
jsonStart(raw) ==
    IF FirstOf(raw, {"[", "{"}) > Len(raw) THEN 0
    ELSE FirstOf(raw, {"[", "{"})
jsonEnd(raw) == Max(lastIndexOf(raw, "}"), lastIndexOf(raw, "]"))

\* only the direct JSON.parse
safeJsonParseDirect(raw) ==
    IF JSON_parse(raw).ok THEN JSON_parse(raw)
    ELSE Failed("Failed to parse JSON from response:\n" \o raw)

safeJsonParse(raw) ==
    IF JSON_parse(raw).ok THEN JSON_parse(raw)
    ELSE IF fenceMatch(raw) /\ JSON_parse(FenceBody(raw)).ok
    THEN JSON_parse(FenceBody(raw))
    ELSE IF /\ jsonStart(raw) # 0
            /\ jsonEnd(raw) # 0
            /\ jsonEnd(raw) > jsonStart(raw)
            /\ JSON_parse(SubSeq(raw, jsonStart(raw), jsonEnd(raw))).ok
    THEN JSON_parse(SubSeq(raw, jsonStart(raw), jsonEnd(raw)))
    ELSE Failed("Failed to parse JSON from response:\n" \o raw)

(***************************************************************************)
(* openai/client.ts: callAndValidate.  The schema argument is              *)
(* z.object({ ok: z.number() }): it accepts an object whose "ok" is a      *)
(* number and returns it without its other keys.                           *)
(***************************************************************************)
schemaParse(v) ==
    IF ~IsObject(v) THEN Failed("Expected object")
    ELSE IF ~IsNumber(Get(v.obj, "ok")) THEN Failed("ok: Required")
    ELSE Parsed(JObj([ok |-> Get(v.obj, "ok")]))

DefaultMaxValidationRetries == 2
maxValidationRetriesOf(args) ==
    IF args.hasMaxValidationRetries THEN args.maxValidationRetries
    ELSE DefaultMaxValidationRetries

\* the prompt of the attempt
promptOf(userPrompt, attempt, lastError) ==
    IF attempt = 0 THEN userPrompt
    ELSE userPrompt \o "\n\nYour previous response had a validation error: "
             \o lastError
             \o "\nPlease fix the output and return valid JSON."

\* JSON.parse and the schema applied to a response
validated(raw) ==
    IF safeJsonParse(raw).ok THEN schemaParse(safeJsonParse(raw).value)
    ELSE safeJsonParse(raw)

MaxRetriesArg == 2
UserPrompts == {"Idea: x"}
ValidateArgsSet ==
    {[userPrompt |-> u, hasMaxValidationRetries |-> FALSE,
      maxValidationRetries |-> 0] : u \in UserPrompts}
        \cup {[userPrompt |-> u, hasMaxValidationRetries |-> TRUE,
               maxValidationRetries |-> k] :
                 u \in UserPrompts, k \in 0..MaxRetriesArg}

ValidResponses ==
    {"{\"ok\":1}", " {\"ok\":1,\"extra\":2}\n",
     "~~~json\n{\"ok\":1}\n~~~", "Sure: {\"ok\":1} Done."}
InvalidResponses ==
    {"{\"bad\":1}", "[1]", "I cannot help.", "{\"ok\":", "~~~\n{\"ok\":\n~~~"}
RawResponses == ValidResponses \cup InvalidResponses
\* the messages of the errors callOpenAI throws once withRetry gives up
ModelErrors == {"401 Incorrect API key", "429 Rate limit"}

Sent(prompt, raw) == [prompt |-> prompt, responded |-> TRUE, raw |-> raw]
Unanswered(prompt) == [prompt |-> prompt, responded |-> FALSE, raw |-> ""]
ValidateReturns(v) == [kind |-> "returned", value |-> v, message |-> ""]
ValidateThrows(msg) == [kind |-> "thrown", value |-> Undefined, message |-> msg]

ValidateInit ==
    /\ pc = "validate_loop"
    /\ KillIdle
    /\ DedupeIdle
    /\ ScoreIdle
    /\ PipeIdle
    /\ ClampIdle
    /\ CredIdle
    /\ RetryIdle
    /\ ExtraIdle
    /\ validateArgs \in ValidateArgsSet
    /\ validateAttempt = 0
    /\ validateLastError = ""
    /\ validateLog = <<>>
    /\ validateOutcome = None

ValidateOthers ==
    UNCHANGED <<killVars, dedupeVars, scoreVars, pipeVars, clampVars, credVars,
                retryVars, extraVars>>

\* the test of the for loop, and the throw after it
ValidateLoopTest ==
    /\ pc = "validate_loop"
    /\ IF validateAttempt <= maxValidationRetriesOf(validateArgs)
       THEN /\ pc' = "validate_call"
            /\ UNCHANGED validateOutcome
       ELSE /\ pc' = "validate_thrown"
            /\ validateOutcome' = ValidateThrows("Validation failed")
    /\ UNCHANGED <<validateArgs, validateAttempt, validateLastError,
                   validateLog>>
    /\ ValidateOthers

\* await callOpenAI resolves with raw: the rest of the loop body
CallOpenAIReturns ==
    /\ pc = "validate_call"
    /\ \E raw \in RawResponses :
          /\ validateLog' =
                 Append(validateLog,
                        Sent(promptOf(validateArgs.userPrompt, validateAttempt,
                                      validateLastError), raw))
          /\ IF validated(raw).ok
             THEN /\ validateOutcome' = ValidateReturns(validated(raw).value)
                  /\ pc' = "validate_returned"
                  /\ UNCHANGED <<validateAttempt, validateLastError>>
             ELSE /\ validateLastError' = validated(raw).message
                  /\ IF validateAttempt = maxValidationRetriesOf(validateArgs)
                     THEN /\ validateOutcome' =
                                 ValidateThrows(
                                     "Failed to get valid response after "
                                     \o ToString(
                                            maxValidationRetriesOf(validateArgs)
                                            + 1)
                                     \o " attempts. Last error: "
                                     \o validated(raw).message)
                          /\ pc' = "validate_thrown"
                          /\ UNCHANGED validateAttempt
                     ELSE /\ validateAttempt' = validateAttempt + 1
                          /\ pc' = "validate_loop"
                          /\ UNCHANGED validateOutcome
    /\ UNCHANGED validateArgs
    /\ ValidateOthers

\* await callOpenAI rejects: the error leaves callAndValidate
CallOpenAIThrows ==
    /\ pc = "validate_call"
    /\ \E msg \in ModelErrors :
          /\ validateLog' =
                 Append(validateLog,
                        Unanswered(promptOf(validateArgs.userPrompt,
                                            validateAttempt,
                                            validateLastError)))
          /\ validateOutcome' = ValidateThrows(msg)
    /\ pc' = "validate_thrown"
    /\ UNCHANGED <<validateArgs, validateAttempt, validateLastError>>
    /\ ValidateOthers

\* runPipeline: the catch around every step ends the process
PipelineCatches ==
    /\ pc = "validate_thrown"
    /\ pc' = "exit_1"
    /\ UNCHANGED validateVars
    /\ ValidateOthers

ValidateNext ==
    \/ ValidateLoopTest
    \/ CallOpenAIReturns
    \/ CallOpenAIThrows
    \/ PipelineCatches
SpecValidate == ValidateInit /\ [][ValidateNext]_vars

ValidateRunning == pc \in {"validate_loop", "validate_call"}
ValidateEnded == pc \in {"validate_returned", "validate_thrown", "exit_1"}
InvalidAnswer(entry) == entry.responded /\ entry.raw \in InvalidResponses
ValidAnswer(entry) == entry.responded /\ entry.raw \in ValidResponses
\* the prompt of call i is the user prompt, followed from the second call on
\* by the validation error of the response before it
PromptCarriesError(i) ==
    /\ StartsWith(validateLog[i].prompt, validateArgs.userPrompt)
    /\ i = 1 => validateLog[i].prompt = validateArgs.userPrompt
    /\ i > 1 =>
          /\ validated(validateLog[i - 1].raw).message # ""
          /\ includes(validateLog[i].prompt,
                      "validation error: "
                      \o validated(validateLog[i - 1].raw).message \o "\n")

\* what holds of callAndValidate in every state
ValidationRetriesState ==
    /\ Len(validateLog) <= maxValidationRetriesOf(validateArgs) + 1
    /\ \A i \in 1..Len(validateLog) : PromptCarriesError(i)
    /\ \A i \in 1..(Len(validateLog) - 1) : InvalidAnswer(validateLog[i])
    /\ ValidateRunning =>
          /\ validateOutcome = None
          /\ \A i \in 1..Len(validateLog) : InvalidAnswer(validateLog[i])
          /\ Len(validateLog) <= maxValidationRetriesOf(validateArgs)
    /\ ValidateEnded =>
          /\ validateLog # <<>>
          /\ LET last == validateLog[Len(validateLog)]
             IN /\ ValidAnswer(last) <=> pc = "validate_returned"
                /\ ValidAnswer(last) =>
                      validateOutcome.value
                          = schemaParse(safeJsonParse(last.raw).value).value
                /\ ~ValidAnswer(last) => validateOutcome.kind = "thrown"
                /\ InvalidAnswer(last) =>
                      Len(validateLog)
                          = maxValidationRetriesOf(validateArgs) + 1

ValidatedSteps == {"scout", "analyst", "skeptic"}
ModelSteps == ValidatedSteps \cup {"referee"}
StepArgsSet ==
    {[step |-> st, userPrompt |-> u, hasMaxValidationRetries |-> FALSE,
      maxValidationRetries |-> 0] : st \in ModelSteps, u \in UserPrompts}

StepInit ==
    /\ KillIdle
    /\ DedupeIdle
    /\ ScoreIdle
    /\ PipeIdle
    /\ ClampIdle
    /\ CredIdle
    /\ RetryIdle
    /\ ExtraIdle
    /\ validateArgs \in StepArgsSet
    /\ pc = IF validateArgs.step = "referee" THEN "run_referee"
            ELSE "validate_loop"
    /\ validateAttempt = 0
    /\ validateLastError = ""
    /\ validateLog = <<>>
    /\ validateOutcome = None

\* runReferee: await callOpenAI resolves with raw; return safeJsonParse(raw)
RunRefereeParses ==
    /\ pc = "run_referee"
    /\ \E raw \in RawResponses :
          /\ validateLog' =
                 Append(validateLog, Sent(validateArgs.userPrompt, raw))
          /\ IF safeJsonParse(raw).ok
             THEN /\ validateOutcome' =
                         ValidateReturns(safeJsonParse(raw).value)
                  /\ pc' = "validate_returned"
             ELSE /\ validateOutcome' =
                         ValidateThrows(safeJsonParse(raw).message)
                  /\ pc' = "validate_thrown"
    /\ UNCHANGED <<validateArgs, validateAttempt, validateLastError>>
    /\ ValidateOthers

\* runReferee: await callOpenAI rejects
RunRefereeCallThrows ==
    /\ pc = "run_referee"
    /\ \E msg \in ModelErrors :
          /\ validateLog' =
                 Append(validateLog, Unanswered(validateArgs.userPrompt))
          /\ validateOutcome' = ValidateThrows(msg)
    /\ pc' = "validate_thrown"
    /\ UNCHANGED <<validateArgs, validateAttempt, validateLastError>>
    /\ ValidateOthers

StepNext == ValidateNext \/ RunRefereeParses \/ RunRefereeCallThrows
SpecStep == StepInit /\ [][StepNext]_vars

\* the responses from which no JSON can be parsed
UnparsableResponses == {"I cannot help.", "{\"ok\":", "~~~\n{\"ok\":\n~~~"}
FirstResponseUnparsable ==
    /\ Len(validateLog) = 1
    /\ validateLog[1].responded
    /\ validateLog[1].raw \in UnparsableResponses
StepAborted == pc \in {"validate_thrown", "exit_1"}

\* C21: in every model step (Scout structuring, Analyst, Skeptic, Referee) a
\* first response from which no JSON can be parsed does not end the step
\* with a throw: the model is called again.
C21_UnparsableIsRetried == FirstResponseUnparsable => ~StepAborted

\* the same, for the steps that go through callAndValidate
C21_UnparsableIsRetriedWhenValidated ==
    (FirstResponseUnparsable /\ validateArgs.step \in ValidatedSteps)
        => ~StepAborted

(***************************************************************************)
(* Claims about the order of the steps of runPipeline (checked under       *)
(* SpecPipe).                                                              *)
(***************************************************************************)
IsPrefix(a, b) == Len(a) <= Len(b) /\ SubSeq(b, 1, Len(a)) = a
CountOf(x, log) == Cardinality({i \in 1..Len(log) : log[i] = x})
ClaimedIterations(d) == IF d <= 1 THEN 1 ELSE 2
Closing == <<"evidenceStrength", "referee", "killRules">>
OneIteration == <<"scout", "dedupe", "analyst", "skeptic">> \o Closing
TwoIterations ==
    <<"scout", "dedupe", "analyst", "skeptic", "scout", "dedupe", "analyst">>
        \o Closing
PipeStarted == pc \in {"scout", "analyst", "skeptic", "referee", "done", "failed"}

ComparatorPrefers(item, existing) ==
    \/ item.credibility > existing.credibility
    \/ /\ item.credibility = existing.credibility
       /\ Len(item.quote) > Len(existing.quote)
\* either test passes
EitherTestPrefers(item, existing) ==
    \/ item.credibility > existing.credibility
    \/ Len(item.quote) > Len(existing.quote)

\* pass n reaches the URL collision branch
Collides(n) ==
    /\ normalizeQuote(evidence[n].quote)
           \notin DedupeLoop(evidence, n - 1).seenQuotes
    /\ SeenHas(DedupeLoop(evidence, n - 1).seen, normalizeUrl(evidence[n].url))
KeptBefore(n) ==
    DedupeLoop(evidence, n - 1).seen[
        SeenIndex(DedupeLoop(evidence, n - 1).seen,
                  normalizeUrl(evidence[n].url))].item
KeptAfter(n) ==
    DedupeLoop(evidence, n).seen[
        SeenIndex(DedupeLoop(evidence, n - 1).seen,
                  normalizeUrl(evidence[n].url))].item

\* C23 as stated: on a URL collision the incoming record takes the slot
\* exactly when the comparator (credibility descending, then quote length
\* descending) prefers it; with a lower credibility it never does.
C23_ReplacementIsComparator ==
    Deduped =>
        \A n \in 1..Len(evidence) :
            (Collides(n) /\ evidence[n] # KeptBefore(n)) =>
                /\ KeptAfter(n) = evidence[n]
                       <=> ComparatorPrefers(evidence[n], KeptBefore(n))
                /\ evidence[n].credibility < KeptBefore(n).credibility
                       => KeptAfter(n) = KeptBefore(n)

\* C23 amended: on a URL collision the incoming record takes the slot
\* exactly when its credibility is strictly higher or its quote is strictly
\* longer; a record of lower credibility takes the slot when its quote is
\* strictly longer, and keeps out of it otherwise.
C23_ReplacementIsEitherTest ==
    Deduped =>
        \A n \in 1..Len(evidence) :
            (Collides(n) /\ evidence[n] # KeptBefore(n)) =>
                /\ KeptAfter(n) = evidence[n]
                       <=> EitherTestPrefers(evidence[n], KeptBefore(n))
                /\ evidence[n].credibility < KeptBefore(n).credibility =>
                       (KeptAfter(n) = evidence[n]
                           <=> Len(evidence[n].quote)
                                   > Len(KeptBefore(n).quote))

\* the second of two records of one URL has the lower credibility and the
\* longer quote, and is the one kept
C23_Witness ==
    /\ Deduped
    /\ Len(evidence) = 2
    /\ Collides(2)
    /\ evidence[2].credibility < evidence[1].credibility
    /\ Len(evidence[2].quote) > Len(evidence[1].quote)
    /\ KeptAfter(2) = evidence[2]
    /\ Len(dedupeResult.evidence) = 1

(***************************************************************************)
(* pipeline/brainstorm.ts: runBrainstorm from the end of the vetting loop  *)
(* (Step 2.5, Pivot Salvage) to the comparison report.                     *)
(***************************************************************************)
IdeaCount == 3
MinPivots == 3
MaxPivots == 3
IdeaNames == <<"Idea 1", "Idea 2", "Idea 3">>
JudgedDimensions ==
    {"painIntensity", "frequency", "buyerClarity", "budgetSignal",
     "switchingCost", "competition", "distributionFeasibility"}

\* clamp(value, min, max) of brainstorm.ts, on integers
clamp(v, lo, hi) == Max(lo, Min(hi, v))

\* a packet of runPipelineCore: its decision is the one of the kill rules
IdeaRubric(c, df, es) ==
    [painIntensity |-> c, frequency |-> c, buyerClarity |-> c,
     budgetSignal |-> c, switchingCost |-> c, competition |-> c,
     distributionFeasibility |-> df, evidenceStrength |-> es]
IdeaPacket(r, w, n, draft) ==
    [rubric |-> r, decision |-> applyKillRules(r, w, n, draft).decision,
     wedgeOptions |-> w, evidenceLength |-> n]
PacketChoices ==
    {IdeaPacket(IdeaRubric(3, 3, 3), <<"wedge">>, 12, "GO"),
     IdeaPacket(IdeaRubric(3, 3, 1), <<"wedge">>, 4, "GO"),
     IdeaPacket(IdeaRubric(3, 3, 3), <<"wedge">>, 12, "NO_GO"),
     IdeaPacket(IdeaRubric(4, 1, 3), <<>>, 12, "GO")}

\* the pivots of a response that passed SalvageResultSchema
Adjustments(d) == [k \in JudgedDimensions |-> d]
PivotChoices ==
    [sourceIdeaName : {"Idea 2", "Idea 9"},
     rubricAdjustments : {Adjustments(0), Adjustments(2)},
     estimatedTotal : {20},
     estimatedDecision : {"GO", "NO_GO"}]
SalvageResponses ==
    UNION {[1..n -> PivotChoices] : n \in MinPivots..MaxPivots}

\* packets.find((_, i) => ideas[i].name === pivot.sourceIdeaName): the index
\* of the first idea of that name, 0 for undefined
FindSource(name) ==
    IF \E i \in 1..IdeaCount : IdeaNames[i] = name
    THEN CHOOSE i \in 1..IdeaCount :
            /\ IdeaNames[i] = name
            /\ \A j \in 1..(i - 1) : IdeaNames[j] # name
    ELSE 0

estimatedScores(sourcePacket, pivot) ==
    [k \in JudgedDimensions \cup {"evidenceStrength"} |->
        IF k = "evidenceStrength" THEN sourcePacket.rubric.evidenceStrength
        ELSE clamp(sourcePacket.rubric[k] + pivot.rubricAdjustments[k],
                   MinScore, MaxScore)]

\* one pass of the loop over salvageResult.pivots
RevalidatePivot(packets, pivot) ==
    IF FindSource(pivot.sourceIdeaName) = 0 THEN pivot
    ELSE LET sourcePacket == packets[FindSource(pivot.sourceIdeaName)]
         IN  [pivot EXCEPT
                !.estimatedTotal =
                    SumDimensions(estimatedScores(sourcePacket, pivot),
                                  Len(Dimensions)),
                !.estimatedDecision =
                    applyKillRules(estimatedScores(sourcePacket, pivot),
                                   sourcePacket.wedgeOptions,
                                   sourcePacket.evidenceLength,
                                   pivot.estimatedDecision).decision]

AllNoGo(packets) == \A i \in 1..Len(packets) : packets[i].decision = "NO_GO"

BrainstormInit ==
    /\ pc = "brainstorm_vetted"
    /\ KillIdle
    /\ DedupeIdle
    /\ ScoreIdle
    /\ PipeIdle
    /\ ClampIdle
    /\ CredIdle
    /\ RetryIdle
    /\ ValidateIdle
    /\ ideaPackets \in [1..IdeaCount -> PacketChoices]
    /\ salvageResponse = None
    /\ salvageResult = None
    /\ TokenIdle

BrainstormOthers ==
    UNCHANGED <<killVars, dedupeVars, scoreVars, pipeVars, clampVars, credVars,
                retryVars, validateVars, tokenVars>>

\* some idea is not NO_GO: Step 2.5 is skipped
SalvageSkipped ==
    /\ pc = "brainstorm_vetted"
    /\ ~AllNoGo(ideaPackets)
    /\ pc' = "brainstorm_report"
    /\ UNCHANGED brainstormVars
    /\ BrainstormOthers

\* runSalvage returns; the loop over the pivots
RunSalvageReturns ==
    /\ pc = "brainstorm_vetted"
    /\ AllNoGo(ideaPackets)
    /\ \E response \in SalvageResponses :
          /\ salvageResponse' = response
          /\ salvageResult' =
                 [i \in 1..Len(response) |->
                     RevalidatePivot(ideaPackets, response[i])]
    /\ pc' = "brainstorm_report"
    /\ UNCHANGED ideaPackets
    /\ BrainstormOthers

\* runSalvage throws: the inner catch, salvageResult stays undefined
RunSalvageThrows ==
    /\ pc = "brainstorm_vetted"
    /\ AllNoGo(ideaPackets)
    /\ pc' = "brainstorm_report"
    /\ UNCHANGED brainstormVars
    /\ BrainstormOthers

BrainstormNext == SalvageSkipped \/ RunSalvageReturns \/ RunSalvageThrows
SpecBrainstorm == BrainstormInit /\ [][BrainstormNext]_vars

Salvaged == pc = "brainstorm_report" /\ salvageResult # None
\* the scores the claim gives a pivot built on idea k
ClaimedScores(k, pivot) ==
    [d \in JudgedDimensions \cup {"evidenceStrength"} |->
        IF d = "evidenceStrength" THEN ideaPackets[k].rubric.evidenceStrength
        ELSE LET v == ideaPackets[k].rubric[d] + pivot.rubricAdjustments[d]
             IN  IF v < 0 THEN 0 ELSE IF v > 5 THEN 5 ELSE v]
\* pivot i of the result carries the decision of the kill rules for idea k
DecidedByKillRules(i, k) ==
    /\ IdeaNames[k] = salvageResponse[i].sourceIdeaName
    /\ salvageResult[i].estimatedDecision
           = applyKillRules(ClaimedScores(k, salvageResponse[i]),
                            ideaPackets[k].wedgeOptions,
                            ideaPackets[k].evidenceLength,
                            salvageResponse[i].estimatedDecision).decision

\* C24: Pivot Salvage runs only when every idea's decision is NO_GO, and
\* every pivot of its result carries the decision applyKillRules returns for
\* the pivot's adjusted scores (each clamped to [0,5], evidenceStrength that
\* of the source idea), not the one the model estimated.
C24_PivotsDecidedByKillRules ==
    /\ salvageResponse # None => AllNoGo(ideaPackets)
    /\ Salvaged =>
          \A i \in 1..Len(salvageResult) :
              \E k \in 1..IdeaCount : DecidedByKillRules(i, k)

\* the same, for the pivots whose sourceIdeaName is the name of an idea
C24_NamedPivotsDecidedByKillRules ==
    /\ salvageResponse # None => AllNoGo(ideaPackets)
    /\ Salvaged =>
          \A i \in 1..Len(salvageResult) :
              FindSource(salvageResponse[i].sourceIdeaName) # 0 =>
                  \E k \in 1..IdeaCount : DecidedByKillRules(i, k)

(***************************************************************************)
(* Claims about the counts of dedupeEvidence (checked under                *)
(* SpecConsolidate).                                                       *)
(***************************************************************************)
\* C25: the number of records returned plus removedCount is the number of
\* input records: every input record is kept in a slot of its own or counted
\* as removed, once.
C25_KeptPlusRemoved ==
    /\ Deduped =>
          Len(dedupeResult.evidence) + dedupeResult.removedCount
              = Len(evidence)
    /\ pc = "rededuped" =>
          Len(dedupeAgain.evidence) + dedupeAgain.removedCount
              = Len(dedupeResult.evidence)

\* three records: the second collides with the first on the URL, the third
\* repeats the first one's quote; one is returned, two are counted
C25_Witness ==
    /\ Deduped
    /\ Len(evidence) = 3
    /\ normalizeUrl(evidence[2].url) = normalizeUrl(evidence[1].url)
    /\ normalizeQuote(evidence[2].quote) # normalizeQuote(evidence[1].quote)
    /\ normalizeUrl(evidence[3].url) # normalizeUrl(evidence[1].url)
    /\ normalizeQuote(evidence[3].quote) = normalizeQuote(evidence[1].quote)
    /\ Len(dedupeResult.evidence) = 1
    /\ dedupeResult.removedCount = 2

(***************************************************************************)
(* Claims about the decision applyKillRules returns against the suggested  *)
(* one (checked under SpecKill).                                           *)
(***************************************************************************)
\* a suggested NO_GO that rule 4 alone turns into UNCLEAR
NoGoRaisedToUnclear ==
    originalDecision = "NO_GO" /\ killResult.decision = "UNCLEAR"

\* C26: overridden is true if and only if the returned decision differs from
\* the suggested decision.
C26_OverriddenIffChanged ==
    Killed => (killResult.overridden <=> killResult.decision # originalDecision)

\* the same, apart from a suggested NO_GO returned as UNCLEAR
C26_OverriddenIffChangedApartFromRaised ==
    (Killed /\ ~NoGoRaisedToUnclear) =>
        (killResult.overridden <=> killResult.decision # originalDecision)

\* NO_GO < UNCLEAR < GO
Favour(d) == CASE d = "NO_GO" -> 0 [] d = "UNCLEAR" -> 1 [] d = "GO" -> 2

C27_NeverMoreFavourableThanGoOrUnclear ==
    (Killed /\ originalDecision # "NO_GO") =>
        Favour(killResult.decision) <= Favour(originalDecision)

C28_SaturatedAnalysisIsNoGo ==
    (/\ Produced
     /\ packet.rubric.competition <= 1
     /\ Len(latestAnalysis.wedgeOptions) = 0)
        => packet.rubric.decision = "NO_GO"

\* a packet whose decision is the UNCLEAR of rule 4
UnclearByRule4 ==
    /\ Produced
    /\ packet.rubric.decision = "UNCLEAR"
    /\ Rule4(packet.rubric, Len(packet.evidence))

DraftSaysGo ==
    /\ IsObject(refereeDraft.rubric)
    /\ refereeDraft.rubric.obj.decision = JStr("GO")

C29_WitnessUnclear ==
    /\ UnclearByRule4
    /\ Len(packet.evidence) = 8
    /\ DraftSaysGo


(***************************************************************************)
(* Specification SpecTokens: the token counter of openai/client.ts under   *)
(* two runPipeline invocations in one process.  Every invocation is a      *)
(* chain of awaited model calls; the code between two awaits runs without  *)
(* interruption, and the invocations interleave at the awaits.             *)
(***************************************************************************)
MaxTokens == 1
MaxResponses == 5

Runs == {1, 2}

\* the model calls of the shortest run: Scout, Analyst, Skeptic, Referee
MinResponses == 4

\* response.usage: absent, or with either count absent
TokenCounts == {Undefined} \cup {JNum(10 * n) : n \in 1..MaxTokens}
Usages ==
    {Undefined}
    \cup {JObj([input_tokens |-> i, output_tokens |-> o]) :
              i \in TokenCounts, o \in TokenCounts}

\* x ?? 0
OrZero(x) == IF x = Undefined THEN 0 ELSE x.tenths \div 10

\* (response.usage.input_tokens ?? 0) + (response.usage.output_tokens ?? 0)
UsageTokens(usage) ==
    OrZero(usage.obj.input_tokens) + OrZero(usage.obj.output_tokens)

NotStarted ==
    [pc |-> "idle", responses |-> 0, received |-> 0, alone |-> TRUE,
     tokenUsage |-> 0]

TokenOthers ==
    UNCHANGED <<pc, killVars, dedupeVars, scoreVars, pipeVars, clampVars,
                credVars, retryVars, validateVars, brainstormVars>>

TokenInit ==
    /\ pc = "tokens"
    /\ KillIdle
    /\ DedupeIdle
    /\ ScoreIdle
    /\ PipeIdle
    /\ ClampIdle
    /\ CredIdle
    /\ RetryIdle
    /\ ValidateIdle
    /\ BrainstormIdle
    /\ totalTokens = 0
    /\ tokenRuns = [r \in Runs |-> NotStarted]

InFlight(r) == tokenRuns[r].pc = "calling"

\* run.ts lines 35-41: runPipeline is called; resetTokenCount()
RunStarts(r) ==
    /\ pc = "tokens"
    /\ tokenRuns[r].pc = "idle"
    /\ totalTokens' = 0
    /\ tokenRuns' =
          [q \in Runs |->
              IF q = r
              THEN [tokenRuns[q] EXCEPT
                       !.pc = "calling",
                       !.alone = \A o \in Runs \ {r} : ~InFlight(o)]
              ELSE IF InFlight(q)
                   THEN [tokenRuns[q] EXCEPT !.alone = FALSE]
                   ELSE tokenRuns[q]]
    /\ TokenOthers

\* client.ts lines 72-83: a response of the model arrives for run r
ResponseArrives(r) ==
    /\ pc = "tokens"
    /\ InFlight(r)
    /\ tokenRuns[r].responses < MaxResponses
    /\ \E usage \in Usages :
          /\ totalTokens' =
                IF usage # Undefined THEN totalTokens + UsageTokens(usage)
                                     ELSE totalTokens
          /\ tokenRuns' =
                [tokenRuns EXCEPT
                    ![r].responses = @ + 1,
                    ![r].received =
                        IF usage # Undefined THEN @ + UsageTokens(usage)
                                             ELSE @]
    /\ TokenOthers

\* run.ts lines 244-279: the Referee has answered; getTotalTokens() is the
\* packet's meta.tokenUsage
RunFinishes(r) ==
    /\ pc = "tokens"
    /\ InFlight(r)
    /\ tokenRuns[r].responses >= MinResponses
    /\ tokenRuns' = [tokenRuns EXCEPT ![r].pc = "done",
                                      ![r].tokenUsage = totalTokens]
    /\ UNCHANGED totalTokens
    /\ TokenOthers

\* run.ts lines 318-322: a step of run r throws; process.exit(1) ends every
\* invocation
RunFails(r) ==
    /\ pc = "tokens"
    /\ InFlight(r)
    /\ pc' = "exit_1"
    /\ UNCHANGED <<killVars, dedupeVars, scoreVars, pipeVars, helperVars>>

TokenNext ==
    \E r \in Runs :
        \/ RunStarts(r)
        \/ ResponseArrives(r)
        \/ RunFinishes(r)
        \/ RunFails(r)

SpecTokens == TokenInit /\ [][TokenNext]_vars

C30_TokenUsageWhenAlone ==
    (pc \in {"tokens", "exit_1"}) =>
        \A r \in Runs :
            (tokenRuns[r].pc = "done" /\ tokenRuns[r].alone) =>
                tokenRuns[r].tokenUsage = tokenRuns[r].received

====
